---- MODULE Spec2Model ----
(***************************************************************************)
(* Model of the ADR Context v2.0 MCP server (the retrieval core: fallback  *)
(* embedder, VectorStore, lazy indexer, tool-call handler), of the         *)
(* resolve-service-id tool of the v1 ADR Context server, and of the ask    *)
(* tool and searchApiDocs of the repo-indexer server.                      *)
(*                                                                         *)
(* Numbers.  The program computes with IEEE doubles.  The model computes   *)
(* with exact values: an embedding is a record [v, d] that denotes the     *)
(* vector whose i-th component is v[i] / sqrt(d), and a similarity score   *)
(* is a record [nan, dot, nn] that denotes NaN when nan holds and          *)
(* dot / sqrt(nn) otherwise.  Rounding of the doubles is not modelled.     *)
(*                                                                         *)
(* Text.  A text is a sequence of character codes (ASCII, 0..127).         *)
(***************************************************************************)
EXTENDS Integers, Sequences, FiniteSets, TLC

VARIABLES
    vs,          \* a VectorStore instance driven directly: [documents, embeddings]
    lastOp,      \* the last call made on vs, or on a handler or function driven
                 \* directly, with its arguments and result
    openai,      \* the OpenAI client is configured (OPENAI_API_KEY is set)
    calls,       \* getEmbedding calls made so far, oldest first
    stores,      \* the global stores: serviceStore and docsStore
    isIndexed,   \* the global flag set when ensureIndexed has indexed
    pc,          \* per handler slot: where its tool invocation is suspended
    req,         \* per handler slot: the request it serves, [name, args]
    loc,         \* per handler slot: the locals of its invocation
    response,    \* per handler slot: the response its last invocation returned
    invocations, \* tool invocations started so far
    faults       \* external requests that failed so far

storeVars == <<vs, lastOp>>
serverVars == <<stores, isIndexed, pc, req, loc, response, invocations, faults>>
vars == <<vs, lastOp, openai, calls, stores, isIndexed, pc, req, loc, response,
          invocations, faults>>

\* --------------------------------------------------------------- bounds

\* most documents held by the directly driven VectorStore
MaxDocs == 2
\* most getEmbedding calls made when getEmbedding is driven directly
MaxCalls == 2
\* most tool invocations the server receives
MaxInvocations == 2
\* most external requests (provider, GitHub, API specification) that fail
MaxFaults == 1
\* most documents held by the stores that search is applied to for its tie-break
MaxTieDocs == 4
\* most documents indexed with the fallback embedder in the ranking scenario
MaxScenarioDocs == 3
\* most repositories in the listing the v1 server receives from GitHub
MaxRepos == 3
\* most paths in the API specification the repo-indexer searches
MaxPaths == 2
\* most items in the answer to the repo-indexer's code search
MaxItems == 2

\* --------------------------------------------------------------- helpers

Min(a, b) == IF a < b THEN a ELSE b
Max(a, b) == IF a > b THEN a ELSE b

\* s[lo] + ... + s[hi], summed by halves
RECURSIVE SumRange(_, _, _)
SumRange(s, lo, hi) ==
    IF lo > hi THEN 0
    ELSE IF lo = hi THEN s[lo]
    ELSE LET mid == (lo + hi) \div 2
         IN  SumRange(s, lo, mid) + SumRange(s, mid + 1, hi)

SumSeq(s) == SumRange(s, 1, Len(s))

\* Array.prototype.slice(0, end): a negative end counts from the back
Slice0(s, end) ==
    LET n == Len(s)
        to == IF end < 0 THEN Max(n + end, 0) ELSE Min(end, n)
    IN  SubSeq(s, 1, to)

\* --------------------------------------------------------------- scores

NaN == [nan |-> TRUE, dot |-> 0, nn |-> 1]

Number(dot, nn) == [nan |-> FALSE, dot |-> dot, nn |-> nn]

\* a > b on doubles; any comparison with NaN is false
ScoreGt(a, b) ==
    /\ ~a.nan
    /\ ~b.nan
    /\ LET l == a.dot * a.dot * b.nn
           r == b.dot * b.dot * a.nn
       IN  IF a.dot >= 0 /\ b.dot < 0 THEN TRUE
           ELSE IF a.dot < 0 /\ b.dot >= 0 THEN FALSE
           ELSE IF a.dot >= 0 THEN l > r
           ELSE l < r

ScoreEq(a, b) == ~a.nan /\ ~b.nan /\ ~ScoreGt(a, b) /\ ~ScoreGt(b, a)

ScoreGeq(a, b) == ScoreGt(a, b) \/ ScoreEq(a, b)

IsZeroScore(s) == ~s.nan /\ s.dot = 0

\* --------------------------------------------------------------- VectorStore

EmptyStore == [documents |-> <<>>, embeddings |-> <<>>]

AddDocumentDocOnly(st, doc, embedding) ==
    [documents |-> Append(st.documents, doc), embeddings |-> st.embeddings]

AddDocumentFront(st, doc, embedding) ==
    [documents |-> <<doc>> \o st.documents,
     embeddings |-> <<embedding>> \o st.embeddings]

\* addDocument: both pushes run in one synchronous stretch of the event loop
AddDocument(st, doc, embedding) ==
    [documents |-> Append(st.documents, doc),
     embeddings |-> Append(st.embeddings, embedding)]

ClearDocumentsOnly(st) == [documents |-> <<>>, embeddings |-> st.embeddings]

\* clear(): both arrays are replaced by empty ones
Clear(st) == [documents |-> <<>>, embeddings |-> <<>>]

\* cosineSimilarity(a, b): the loop runs over a's indices; reading b past its
\* end gives undefined, which turns every sum it enters into NaN; 0/0 is NaN.
\* The sums are taken over the indices where a or b is not 0: the other terms
\* add 0.
CosineSimilarity(a, b) ==
    LET n == Len(a.v)
        terms == SelectSeq([i \in 1..n |-> i] \o <<>>,
                           LAMBDA i : a.v[i] # 0 \/ b.v[i] # 0)
        dotProduct == SumSeq([k \in 1..Len(terms) |-> a.v[terms[k]] * b.v[terms[k]]] \o <<>>)
        normA == SumSeq([k \in 1..Len(terms) |-> a.v[terms[k]] * a.v[terms[k]]] \o <<>>)
        normB == SumSeq([k \in 1..Len(terms) |-> b.v[terms[k]] * b.v[terms[k]]] \o <<>>)
    IN  IF n > Len(b.v) THEN NaN
        ELSE IF normA = 0 \/ normB = 0 THEN NaN
        ELSE Number(dotProduct, normA * normB)

ComparatorAscending(a, b) ==
    IF a.score.nan \/ b.score.nan THEN 0
    ELSE IF ScoreGt(a.score, b.score) THEN 1
    ELSE IF ScoreGt(b.score, a.score) THEN -1
    ELSE 0

\* the comparator (a, b) => b.score - a.score, as sort reads it: its sign,
\* with a NaN difference read as +0
Comparator(a, b) ==
    IF a.score.nan \/ b.score.nan THEN 0
    ELSE IF ScoreGt(a.score, b.score) THEN -1
    ELSE IF ScoreGt(b.score, a.score) THEN 1
    ELSE 0

\* the comparator orders the elements consistently (ECMAScript,
\* Array.prototype.sort): with this comparator it does unless a NaN score,
\* which compares equal to every score, meets two scores that differ
ConsistentComparator(s) ==
    \/ \A i \in 1..Len(s) : ~s[i].score.nan
    \/ \A i, j \in 1..Len(s) :
          (~s[i].score.nan /\ ~s[j].score.nan) => ScoreEq(s[i].score, s[j].score)

\* the stable sort under a consistent comparator: an element comes after the
\* elements that sort before it and the earlier elements that compare equal
StableSort(s) ==
    LET n == Len(s)
        rank == [i \in 1..n |->
                    1 + Cardinality({j \in 1..n :
                            \/ Comparator(s[j], s[i]) < 0
                            \/ Comparator(s[j], s[i]) = 0 /\ j < i})] \o <<>>
    IN  [k \in 1..n |-> s[CHOOSE i \in 1..n : rank[i] = k]] \o <<>>

\* what similarities.sort(...) may leave: the stable order when the comparator
\* is consistent, else an implementation-defined permutation
SortOutcomes(s) ==
    IF ConsistentComparator(s) THEN {StableSort(s)}
    ELSE {[i \in 1..Len(s) |-> s[p[i]]] : p \in Permutations(1..Len(s))}

\* this.embeddings.map((emb, idx) => ({index, score}))
Similarities(st, queryEmbedding) ==
    [idx \in 1..Len(st.embeddings) |->
        [index |-> idx, score |-> CosineSimilarity(queryEmbedding, st.embeddings[idx])]]
    \o <<>>

\* similarities.slice(0, topK).map((s) => ({document, score}))
TopResults(st, sorted, topK) ==
    LET top == Slice0(sorted, topK)
    IN  [i \in 1..Len(top) |->
            [document |-> st.documents[top[i].index], score |-> top[i].score]] \o <<>>

SearchOutcomesNoEmptyCase(st, queryEmbedding, topK) ==
    IF Len(st.embeddings) = 0 THEN {<<[document |-> <<>>, score |-> NaN]>>}
    ELSE UNION {{TopResults(st, sorted, topK) : sorted \in SortOutcomes(similarities)} :
                    similarities \in {Similarities(st, queryEmbedding)}}

\* search(queryEmbedding, topK): every result the call may return
SearchOutcomes(st, queryEmbedding, topK) ==
    IF Len(st.embeddings) = 0 THEN {<<>>}
    ELSE UNION {{TopResults(st, sorted, topK) : sorted \in SortOutcomes(similarities)} :
                    similarities \in {Similarities(st, queryEmbedding)}}

\* lastOp before any call; prev is the method called before op, and sinceClear
\* counts the calls made after the last clear() (3: three or more, or no clear)
NoOp == [op |-> "none", doc |-> "", emb |-> <<>>, topK |-> 0,
         before |-> EmptyStore, result |-> <<>>, prev |-> "none", sinceClear |-> 3]

\* --------------------------------------------------------------- fallback embedder

\* the default of simpleEmbedding's dimensions parameter
dimensions == 256

\* the value of a missing argument: no text (-1 is no character code)
Undefined == <<-1>>

IsText(text) == text # Undefined

\* String.prototype.toLowerCase on one ASCII character code
LowerCode(c) == IF c >= 65 /\ c <= 90 THEN c + 32 ELSE c

ToLowerCase(text) == [i \in 1..Len(text) |-> LowerCode(text[i])] \o <<>>

\* \w of a regular expression: [A-Za-z0-9_]
IsWordChar(c) ==
    \/ c >= 48 /\ c <= 57
    \/ c >= 65 /\ c <= 90
    \/ c = 95
    \/ c >= 97 /\ c <= 122

\* text.split(/\W+/) without the empty strings it leaves at the ends: the
\* maximal runs of word characters, in the order they start
SplitWords(text) ==
    LET n == Len(text)
        positions == [i \in 1..n |-> i] \o <<>>
        starts == SelectSeq(positions, LAMBDA i :
                      IsWordChar(text[i]) /\ (i = 1 \/ ~IsWordChar(text[i - 1])))
        ends == SelectSeq(positions, LAMBDA i :
                      IsWordChar(text[i]) /\ (i = n \/ ~IsWordChar(text[i + 1])))
    IN  [k \in 1..Len(starts) |-> SubSeq(text, starts[k], ends[k])] \o <<>>

\* .filter((w) => w.length > 2)
Words(text) == SelectSeq(SplitWords(ToLowerCase(text)), LAMBDA w : Len(w) > 2)

WordHashFirstChar(word, hash, dims) ==
    IF word = <<>> THEN hash ELSE hash * 31 + Head(word)

\* hash = (hash * 31 + word.charCodeAt(i)) % dimensions, from 0, over the word
RECURSIVE WordHash(_, _, _)
WordHash(word, hash, dims) ==
    IF word = <<>> THEN hash
    ELSE WordHash(Tail(word), (hash * 31 + Head(word)) % dims, dims)

BucketsPositional(words, dims) ==
    LET hashes == [i \in 1..Len(words) |-> WordHash(words[i], 0, dims)] \o <<>>
    IN  [b \in 1..dims |->
            SumSeq([i \in 1..Len(words) |-> IF hashes[i] = b - 1 THEN i ELSE 0] \o <<>>)]
        \o <<>>

\* the bucket counts before normalization: embedding[hash] += 1 per word
Buckets(words, dims) ==
    LET hashes == [i \in 1..Len(words) |-> WordHash(words[i], 0, dims)] \o <<>>
    IN  [b \in 1..dims |-> Cardinality({i \in 1..Len(words) : hashes[i] = b - 1})]
        \o <<>>

SimpleEmbeddingSharedArray(text, dims) ==
    LET counts == Buckets(Words(text), dims)
        kept == IF calls # <<>> /\ Len(calls[Len(calls)].result.v) = dims
                THEN calls[Len(calls)].result.v
                ELSE [i \in 1..dims |-> 0]
        embedding == [i \in 1..dims |-> kept[i] + counts[i]] \o <<>>
        sumSq == SumSeq([i \in 1..dims |-> embedding[i] * embedding[i]] \o <<>>)
    IN  [v |-> embedding, d |-> IF sumSq = 0 THEN 1 ELSE sumSq]

SimpleEmbeddingUnnormalized(text, dims) ==
    [v |-> Buckets(Words(text), dims), d |-> 1]

\* simpleEmbedding(text, dimensions): the counts divided by their Euclidean
\* norm, or by 1 when the norm is 0
SimpleEmbedding(text, dims) ==
    LET embedding == Buckets(Words(text), dims)
        sumSq == SumSeq([i \in 1..dims |-> embedding[i] * embedding[i]] \o <<>>)
    IN  [v |-> embedding, d |-> IF sumSq = 0 THEN 1 ELSE sumSq]

\* --------------------------------------------------------------- getEmbedding

\* what a call returns or throws
Returned(embedding) == [threw |-> FALSE, embedding |-> embedding]
Threw == [threw |-> TRUE, embedding |-> <<>>]

\* what the provider does with one request
NotCalled == [called |-> FALSE, ok |-> FALSE, embedding |-> <<>>]
ProviderFails == [called |-> TRUE, ok |-> FALSE, embedding |-> <<>>]
ProviderReturns(embedding) == [called |-> TRUE, ok |-> TRUE, embedding |-> embedding]

\* vectors the provider answers with; it has its own number of components
\* (1536 for text-embedding-3-small), shortened here, and never 256
ProviderVecs == {[v |-> w, d |-> 1] : w \in {<<1, 0, 0>>, <<0, 1, 1>>}}

\* the provider's possible behaviours on one getEmbedding call
ProviderOutcomes ==
    IF openai THEN {ProviderFails} \cup {ProviderReturns(e) : e \in ProviderVecs}
    ELSE {NotCalled}

GetEmbeddingNoCatch(text, outcome) ==
    IF ~IsText(text) THEN Threw
    ELSE IF ~openai THEN Returned(SimpleEmbedding(text, dimensions))
    ELSE IF outcome.ok THEN Returned(outcome.embedding)
    ELSE Threw

GetEmbeddingLatched(text, outcome) ==
    IF ~IsText(text) THEN Threw
    ELSE IF ~openai THEN Returned(SimpleEmbedding(text, dimensions))
    ELSE IF outcome.ok /\ \A i \in 1..Len(calls) : calls[i].outcome.ok
         THEN Returned(outcome.embedding)
    ELSE Returned(SimpleEmbedding(text, dimensions))

\* getEmbedding(text): without a client the fallback; else the provider's
\* vector, or the fallback when the request throws.  A text that is no string
\* makes simpleEmbedding throw a TypeError (with a client: text.slice throws
\* inside the try, and simpleEmbedding throws again inside the catch).
GetEmbedding(text, outcome) ==
    IF ~IsText(text) THEN Threw
    ELSE IF ~openai THEN Returned(SimpleEmbedding(text, dimensions))
    ELSE IF outcome.ok THEN Returned(outcome.embedding)
    ELSE Returned(SimpleEmbedding(text, dimensions))

\* --------------------------------------------------------------- texts

Null == <<-2>>

Space == <<32>>

\* Array.prototype.join
RECURSIVE Join(_, _)
Join(parts, sep) ==
    IF parts = <<>> THEN <<>>
    ELSE IF Len(parts) = 1 THEN parts[1]
    ELSE parts[1] \o sep \o Join(Tail(parts), sep)

\* x || dflt
OrDefault(x, dflt) == IF x \in {Undefined, Null, <<>>} THEN dflt ELSE x

UpperCode(c) == IF c >= 97 /\ c <= 122 THEN c - 32 ELSE c

ToUpperCase(text) == [i \in 1..Len(text) |-> UpperCode(text[i])] \o <<>>

\* "marketplace-api"
ApiDocId ==
    <<109, 97, 114, 107, 101, 116, 112, 108, 97, 99, 101, 45, 97, 112, 105>>

\* "ADR Marketplace Platform API"
ApiDocName ==
    <<65, 68, 82, 32, 77, 97, 114, 107, 101, 116, 112, 108, 97, 99, 101, 32, 80, 108,
    97, 116, 102, 111, 114, 109, 32, 65, 80, 73>>

\* "Core marketplace API for organizations, programs, participants, transactions, webhooks, SSO, and points management"
ApiDocDescription ==
    <<67, 111, 114, 101, 32, 109, 97, 114, 107, 101, 116, 112, 108, 97, 99, 101, 32, 65,
    80, 73, 32, 102, 111, 114, 32, 111, 114, 103, 97, 110, 105, 122, 97, 116, 105, 111,
    110, 115, 44, 32, 112, 114, 111, 103, 114, 97, 109, 115, 44, 32, 112, 97, 114, 116,
    105, 99, 105, 112, 97, 110, 116, 115, 44, 32, 116, 114, 97, 110, 115, 97, 99, 116,
    105, 111, 110, 115, 44, 32, 119, 101, 98, 104, 111, 111, 107, 115, 44, 32, 83, 83,
    79, 44, 32, 97, 110, 100, 32, 112, 111, 105, 110, 116, 115, 32, 109, 97, 110, 97,
    103, 101, 109, 101, 110, 116>>

\* authentication, organization, program, participant, transaction, webhook, sso, points
ApiDocTopics ==
    <<<<97, 117, 116, 104, 101, 110, 116, 105, 99, 97, 116, 105, 111, 110>>,
      <<111, 114, 103, 97, 110, 105, 122, 97, 116, 105, 111, 110>>,
      <<112, 114, 111, 103, 114, 97, 109>>,
      <<112, 97, 114, 116, 105, 99, 105, 112, 97, 110, 116>>,
      <<116, 114, 97, 110, 115, 97, 99, 116, 105, 111, 110>>,
      <<119, 101, 98, 104, 111, 111, 107>>,
      <<115, 115, 111>>,
      <<112, 111, 105, 110, 116, 115>>>>

\* "sdk"
TextSdk ==
    <<115, 100, 107>>

\* "ui"
TextUi ==
    <<117, 105>>

\* "JavaScript"
TextJavaScript ==
    <<74, 97, 118, 97, 83, 99, 114, 105, 112, 116>>

\* "get"
TextGet ==
    <<103, 101, 116>>

\* "post"
TextPost ==
    <<112, 111, 115, 116>>

\* "put"
TextPut ==
    <<112, 117, 116>>

\* "delete"
TextDelete ==
    <<100, 101, 108, 101, 116, 101>>

\* "patch"
TextPatch ==
    <<112, 97, 116, 99, 104>>

\* "parameters"
TextParameters ==
    <<112, 97, 114, 97, 109, 101, 116, 101, 114, 115>>

\* "/webhooks"
TextPathWebhooks ==
    <<47, 119, 101, 98, 104, 111, 111, 107, 115>>

\* "List webhooks"
TextListWebhooks ==
    <<76, 105, 115, 116, 32, 119, 101, 98, 104, 111, 111, 107, 115>>

\* "Webhook"
TextWebhook ==
    <<87, 101, 98, 104, 111, 111, 107>>

\* "# SDK\nInstall the sdk"
TextReadmeSdk ==
    <<35, 32, 83, 68, 75, 10, 73, 110, 115, 116, 97, 108, 108, 32, 116, 104, 101, 32,
    115, 100, 107>>

\* "UI kit"
TextReadmeUi ==
    <<85, 73, 32, 107, 105, 116>>

\* "webhook events", "Webhook, EVENTS!", "hi" (no word longer than 2 characters)
TextWebhookEvents == <<119, 101, 98, 104, 111, 111, 107, 32, 101, 118, 101, 110, 116, 115>>
TextWebhookEventsUpper ==
    <<87, 101, 98, 104, 111, 111, 107, 44, 32, 69, 86, 69, 78, 84, 83, 33>>
TextHi == <<104, 105>>

\* "events webhook", "api api sso", "sso api api", ""
TextEventsWebhook == <<101, 118, 101, 110, 116, 115, 32, 119, 101, 98, 104, 111, 111, 107>>
TextApiApiSso == <<97, 112, 105, 32, 97, 112, 105, 32, 115, 115, 111>>
TextSsoApiApi == <<115, 115, 111, 32, 97, 112, 105, 32, 97, 112, 105>>
TextEmpty == <<>>

\* --------------------------------------------------------------- the external services

\* what GitHub lists for the organisation (the fields fetchOrgRepos reads)
GitHubRepos ==
    <<[name |-> TextSdk, description |-> Null, language |-> TextJavaScript, topics |-> Null],
      [name |-> TextUi, description |-> TextReadmeUi, language |-> Null, topics |-> <<>>]>>

\* the README.md of a repository
GitHubReadme(repo) == IF repo = TextSdk THEN TextReadmeSdk ELSE TextReadmeUi

\* the API specification: the (path, method, operation) entries of spec.paths
\* in Object.entries order, and the entries of spec.components.schemas
ApiSpecOperations ==
    <<[path |-> TextPathWebhooks, method |-> TextParameters,
       operation |-> [summary |-> Undefined, description |-> Undefined,
                      tags |-> Undefined, operationId |-> Undefined]],
      [path |-> TextPathWebhooks, method |-> TextGet,
       operation |-> [summary |-> TextListWebhooks, description |-> Undefined,
                      tags |-> Undefined, operationId |-> Undefined]]>>

ApiSpecSchemas ==
    <<[name |-> TextWebhook,
       schema |-> [description |-> Undefined, properties |-> Undefined]]>>

\* fetchOrgRepos: the listing mapped to {id, name, description, language, topics}
\* (url and default_branch are carried along and never read)
FetchOrgRepos ==
    [i \in 1..Len(GitHubRepos) |->
        [id |-> GitHubRepos[i].name,
         name |-> GitHubRepos[i].name,
         description |-> OrDefault(GitHubRepos[i].description, <<>>),
         language |-> GitHubRepos[i].language,
         topics |-> OrDefault(GitHubRepos[i].topics, <<>>)]] \o <<>>

\* --------------------------------------------------------------- indexing

ServiceStore == "serviceStore"
DocsStore == "docsStore"
StoreNames == {ServiceStore, DocsStore}

\* indexServices: apiDoc and apiText
ApiDoc ==
    [id |-> ApiDocId, type |-> "api", name |-> ApiDocName,
     description |-> ApiDocDescription, topics |-> ApiDocTopics]

ApiText ==
    ApiDoc.name \o Space \o ApiDoc.description \o Space \o Join(ApiDoc.topics, Space)

\* indexServices: the document and the text of one repository
RepoDoc(repo) ==
    [id |-> repo.id, name |-> repo.name, description |-> repo.description,
     language |-> repo.language, topics |-> repo.topics, type |-> "repository"]

RepoText(repo) ==
    repo.name \o Space \o repo.description \o Space \o Join(repo.topics, Space)
    \o Space \o OrDefault(repo.language, <<>>)

\* indexDocs: the entries of spec.paths that pass the method filter
HttpMethods == {TextGet, TextPost, TextPut, TextDelete, TextPatch}

HttpOperations == SelectSeq(ApiSpecOperations, LAMBDA e : e.method \in HttpMethods)

EndpointDoc(e) ==
    [type |-> "endpoint", method |-> ToUpperCase(e.method), path |-> e.path,
     summary |-> OrDefault(e.operation.summary, <<>>),
     description |-> OrDefault(e.operation.description, <<>>),
     tags |-> OrDefault(e.operation.tags, <<>>),
     operationId |-> e.operation.operationId]

EndpointText(e) ==
    LET doc == EndpointDoc(e)
    IN  e.method \o Space \o e.path \o Space \o doc.summary \o Space \o doc.description
        \o Space \o Join(doc.tags, Space)

SchemaDocRaw(e) ==
    [type |-> "schema", name |-> e.name,
     description |-> e.schema.description,
     properties |-> OrDefault(e.schema.properties, <<>>)]

\* indexDocs: a schema; properties are the keys of schema.properties || {}
SchemaDoc(e) ==
    [type |-> "schema", name |-> e.name,
     description |-> OrDefault(e.schema.description, <<>>),
     properties |-> OrDefault(e.schema.properties, <<>>)]

SchemaText(e) ==
    LET doc == SchemaDoc(e)
    IN  e.name \o Space \o doc.description \o Space \o Join(doc.properties, Space)

\* indexDocs: repos.slice(0, 10), and the document of a README
ReadmeRepos == Slice0(FetchOrgRepos, 10)

ReadmeDoc(repo, readme) ==
    [type |-> "readme", repo |-> repo.id, content |-> Slice0(readme, 2000)]

ReadmeText(readme) == Slice0(readme, 4000)

\* --------------------------------------------------------------- the tool-call handler

\* handler slots: the invocations that can be in flight together
Handlers == {1, 2}

\* an optional numeric argument: <<>> when missing, <<n>> when given
Missing == <<>>
DefaultTo(optional, dflt) == IF optional = Missing THEN dflt ELSE optional[1]

Requests ==
    {[name |-> "resolve-service-id", args |-> [query |-> q]] :
        q \in {TextWebhookEvents, TextHi, Undefined}}
    \cup {[name |-> "get-service-docs", args |-> [serviceId |-> TextSdk, query |-> q]] :
        q \in {TextWebhookEvents, Undefined}}
    \cup {[name |-> "ask", args |-> [question |-> TextWebhookEvents, maxResults |-> m]] :
        m \in {Missing, <<1>>}}
    \cup {[name |-> "unknown-tool", args |-> [query |-> Undefined]]}

NoRequest == [name |-> "", args |-> [query |-> Undefined]]

\* i: the loop index; ran: this invocation found the flag unset and indexes;
\* failed: the fetches that failed in it; queryEmbedding, searched: the query
\* embedding and the stores searched with it; serviceResults: ask's first search;
\* context, chat: the context ask handed to generateAnswer and what the chat
\* completion request did
NoLoc == [i |-> 0, ran |-> FALSE, failed |-> {}, queryEmbedding |-> <<>>,
          searched |-> {}, serviceResults |-> <<>>, context |-> <<>>, chat |-> "none"]

NoResponse == [sent |-> FALSE, isError |-> FALSE, body |-> <<>>]

\* the handler's return values: the tool's result, and the catch block's
Result(body) == [sent |-> TRUE, isError |-> FALSE, body |-> body]
ErrorResult(message) == [sent |-> TRUE, isError |-> TRUE, body |-> message]

\* an external request may still fail
MayFail == faults < MaxFaults

FetchOutcomes == {TRUE} \cup (IF MayFail THEN {FALSE} ELSE {})

\* the vector the provider answers the server with
ServerProviderVec == [v |-> <<1, 0, 0>>, d |-> 1]

ServerProviderOutcomes ==
    IF ~openai THEN {NotCalled}
    ELSE {ProviderReturns(ServerProviderVec)} \cup (IF MayFail THEN {ProviderFails} ELSE {})

Cost(outcome) == IF outcome = ProviderFails THEN 1 ELSE 0

\* openai.chat.completions.create: not called, answers, or throws
ChatOutcomes(spent) ==
    IF ~openai THEN {"none"}
    ELSE {"ok"} \cup (IF faults + spent < MaxFaults THEN {"fail"} ELSE {})

GenerateAnswerDropsContext(question, context, chat) ==
    IF ~openai THEN [answer |-> "AI synthesis unavailable", context |-> context]
    ELSE IF chat = "ok" THEN [answer |-> "synthesized", context |-> context]
    ELSE [answer |-> "AI error", context |-> <<>>]

\* generateAnswer(question, context); the answer texts are named, not spelled out
GenerateAnswer(question, context, chat) ==
    IF ~openai THEN [answer |-> "AI synthesis unavailable", context |-> context]
    ELSE IF chat = "ok" THEN [answer |-> "synthesized", context |-> context]
    ELSE [answer |-> "AI error", context |-> context]

NeedsIndexingAlways == TRUE

\* ensureIndexed: if (!isIndexed)
NeedsIndexing == ~isIndexed

\* the switch reads the request of the invocation in slot h
Dispatch(h, request) ==
    /\ pc[h] = "tool"
    /\ req' = [req EXCEPT ![h] = request]

ThrowUncaught(h, message) ==
    /\ pc' = [pc EXCEPT ![h] = "done"]
    /\ response' = [response EXCEPT ![h] = NoResponse]

\* an exception reaches the handler's catch block: it returns an error response
Throw(h, message) ==
    /\ pc' = [pc EXCEPT ![h] = "done"]
    /\ response' = [response EXCEPT ![h] = ErrorResult(message)]

StartWithoutAwait(h) ==
    /\ pc[h] \in {"idle", "done"}
    /\ invocations < MaxInvocations
    /\ invocations' = invocations + 1
    /\ req' = [req EXCEPT ![h] = NoRequest]
    /\ response' = [response EXCEPT ![h] = NoResponse]
    /\ loc' = [loc EXCEPT ![h] = NoLoc]
    /\ pc' = [pc EXCEPT ![h] = "tool"]
    /\ UNCHANGED <<storeVars, openai, calls, stores, isIndexed, faults>>

\* the handler is called; ensureIndexed reads the flag and, unless it is set,
\* indexServices starts and suspends in getEmbedding(apiText).  The request's
\* name and arguments are first read in the switch: req is set there.
Start(h) ==
    /\ pc[h] \in {"idle", "done"}
    /\ invocations < MaxInvocations
    /\ invocations' = invocations + 1
    /\ req' = [req EXCEPT ![h] = NoRequest]
    /\ response' = [response EXCEPT ![h] = NoResponse]
    /\ loc' = [loc EXCEPT ![h] = [NoLoc EXCEPT !.ran = NeedsIndexing]]
    /\ pc' = [pc EXCEPT ![h] = IF NeedsIndexing THEN "indexApi" ELSE "tool"]
    /\ UNCHANGED <<storeVars, openai, calls, stores, isIndexed, faults>>

\* indexServices: the API document is embedded and added; fetchOrgRepos is called
IndexApi(h) ==
    /\ pc[h] = "indexApi"
    /\ \E outcome \in ServerProviderOutcomes :
          /\ stores' = [stores EXCEPT ![ServiceStore] =
                            AddDocument(@, ApiDoc, GetEmbedding(ApiText, outcome).embedding)]
          /\ faults' = faults + Cost(outcome)
    /\ pc' = [pc EXCEPT ![h] = "fetchRepos"]
    /\ UNCHANGED <<storeVars, openai, calls, isIndexed, req, loc, response, invocations>>

\* indexServices: fetchOrgRepos returns the listing, or throws out of
\* ensureIndexed into the handler's catch block
FetchRepos(h) ==
    /\ pc[h] = "fetchRepos"
    /\ \E ok \in FetchOutcomes :
          IF ok
          THEN /\ pc' = [pc EXCEPT ![h] =
                            IF FetchOrgRepos = <<>> THEN "fetchSpec" ELSE "indexRepo"]
               /\ loc' = [loc EXCEPT ![h].i = 1]
               /\ UNCHANGED <<response, faults>>
          ELSE /\ Throw(h, "GitHub API error")
               /\ loc' = [loc EXCEPT ![h].failed = @ \cup {<<"repos", 0>>}]
               /\ faults' = faults + 1
    /\ UNCHANGED <<storeVars, openai, calls, stores, isIndexed, req, invocations>>

\* indexServices: one repository is embedded and added; after the last one
\* indexDocs starts and calls fetchApiSpec
IndexRepo(h) ==
    /\ pc[h] = "indexRepo"
    /\ LET repo == FetchOrgRepos[loc[h].i]
       IN  \E outcome \in ServerProviderOutcomes :
              /\ stores' = [stores EXCEPT ![ServiceStore] =
                    AddDocument(@, RepoDoc(repo), GetEmbedding(RepoText(repo), outcome).embedding)]
              /\ faults' = faults + Cost(outcome)
    /\ IF loc[h].i < Len(FetchOrgRepos)
       THEN /\ loc' = [loc EXCEPT ![h].i = @ + 1]
            /\ UNCHANGED pc
       ELSE /\ pc' = [pc EXCEPT ![h] = "fetchSpec"]
            /\ UNCHANGED loc
    /\ UNCHANGED <<storeVars, openai, calls, isIndexed, req, response, invocations>>

\* where indexDocs goes on after the endpoints, and after the schemas
AfterEndpoints == IF ApiSpecSchemas = <<>> THEN "fetchReposDocs" ELSE "indexSchema"

\* indexDocs: fetchApiSpec returns the specification, or throws into the catch
\* of indexDocs, which goes on with the READMEs
FetchSpec(h) ==
    /\ pc[h] = "fetchSpec"
    /\ \E ok \in FetchOutcomes :
          IF ok
          THEN /\ pc' = [pc EXCEPT ![h] =
                            IF HttpOperations = <<>> THEN AfterEndpoints ELSE "indexEndpoint"]
               /\ loc' = [loc EXCEPT ![h].i = 1]
               /\ UNCHANGED faults
          ELSE /\ pc' = [pc EXCEPT ![h] = "fetchReposDocs"]
               /\ loc' = [loc EXCEPT ![h].failed = @ \cup {<<"spec", 0>>}]
               /\ faults' = faults + 1
    /\ UNCHANGED <<storeVars, openai, calls, stores, isIndexed, req, response, invocations>>

\* indexDocs: one endpoint is embedded and added
IndexEndpoint(h) ==
    /\ pc[h] = "indexEndpoint"
    /\ LET e == HttpOperations[loc[h].i]
       IN  \E outcome \in ServerProviderOutcomes :
              /\ stores' = [stores EXCEPT ![DocsStore] =
                    AddDocument(@, EndpointDoc(e), GetEmbedding(EndpointText(e), outcome).embedding)]
              /\ faults' = faults + Cost(outcome)
    /\ IF loc[h].i < Len(HttpOperations)
       THEN /\ loc' = [loc EXCEPT ![h].i = @ + 1]
            /\ UNCHANGED pc
       ELSE /\ pc' = [pc EXCEPT ![h] = AfterEndpoints]
            /\ loc' = [loc EXCEPT ![h].i = 1]
    /\ UNCHANGED <<storeVars, openai, calls, isIndexed, req, response, invocations>>

\* indexDocs: one schema is embedded and added; after the last one the second
\* fetchOrgRepos is called
IndexSchema(h) ==
    /\ pc[h] = "indexSchema"
    /\ LET e == ApiSpecSchemas[loc[h].i]
       IN  \E outcome \in ServerProviderOutcomes :
              /\ stores' = [stores EXCEPT ![DocsStore] =
                    AddDocument(@, SchemaDoc(e), GetEmbedding(SchemaText(e), outcome).embedding)]
              /\ faults' = faults + Cost(outcome)
    /\ IF loc[h].i < Len(ApiSpecSchemas)
       THEN /\ loc' = [loc EXCEPT ![h].i = @ + 1]
            /\ UNCHANGED pc
       ELSE /\ pc' = [pc EXCEPT ![h] = "fetchReposDocs"]
            /\ UNCHANGED loc
    /\ UNCHANGED <<storeVars, openai, calls, isIndexed, req, response, invocations>>

\* indexDocs: the second fetchOrgRepos, outside the try: it returns the
\* listing, or throws out of ensureIndexed into the handler's catch block
FetchReposDocs(h) ==
    /\ pc[h] = "fetchReposDocs"
    /\ \E ok \in FetchOutcomes :
          IF ok
          THEN /\ pc' = [pc EXCEPT ![h] =
                            IF ReadmeRepos = <<>> THEN "setIndexed" ELSE "indexReadme"]
               /\ loc' = [loc EXCEPT ![h].i = 1]
               /\ UNCHANGED <<response, faults>>
          ELSE /\ Throw(h, "GitHub API error")
               /\ loc' = [loc EXCEPT ![h].failed = @ \cup {<<"reposDocs", 0>>}]
               /\ faults' = faults + 1
    /\ UNCHANGED <<storeVars, openai, calls, stores, isIndexed, req, invocations>>

\* indexDocs: fetchRepoContent returns one README, which is embedded and added,
\* or null (the request failed), and the repository is skipped
IndexReadme(h) ==
    /\ pc[h] = "indexReadme"
    /\ LET repo == ReadmeRepos[loc[h].i]
           readme == GitHubReadme(repo.id)
           next == IF loc[h].i < Len(ReadmeRepos) THEN [loc[h] EXCEPT !.i = @ + 1] ELSE loc[h]
       IN  \E ok \in FetchOutcomes :
              IF ok
              THEN /\ \E outcome \in ServerProviderOutcomes :
                         /\ stores' = [stores EXCEPT ![DocsStore] =
                               AddDocument(@, ReadmeDoc(repo, readme),
                                  GetEmbedding(ReadmeText(readme), outcome).embedding)]
                         /\ faults' = faults + Cost(outcome)
                   /\ loc' = [loc EXCEPT ![h] = next]
              ELSE /\ loc' = [loc EXCEPT ![h] =
                                 [next EXCEPT !.failed = @ \cup {<<"readme", loc[h].i>>}]]
                   /\ faults' = faults + 1
                   /\ UNCHANGED stores
    /\ pc' = [pc EXCEPT ![h] = IF loc[h].i < Len(ReadmeRepos) THEN "indexReadme" ELSE "setIndexed"]
    /\ UNCHANGED <<storeVars, openai, calls, isIndexed, req, response, invocations>>

\* ensureIndexed: isIndexed = true; the handler goes on to its tool
SetIndexed(h) ==
    /\ pc[h] = "setIndexed"
    /\ isIndexed' = TRUE
    /\ pc' = [pc EXCEPT ![h] = "tool"]
    /\ UNCHANGED <<storeVars, openai, calls, stores, req, loc, response, invocations, faults>>

\* --------------------------------------------------------------- the tools

\* the responses carry the documents and scores; JSON.stringify and the
\* rounding of relevance to two decimals are not modelled

\* case "resolve-service-id"
ResolveServiceId(h) ==
    /\ \E request \in {r \in Requests : r.name = "resolve-service-id"} :
          /\ Dispatch(h, request)
          /\ \E outcome \in ServerProviderOutcomes :
                LET queryEmbedding == GetEmbedding(request.args.query, outcome)
                IN  IF queryEmbedding.threw
                    THEN /\ Throw(h, "TypeError")
                         /\ UNCHANGED <<loc, faults>>
                    ELSE /\ \E results \in SearchOutcomes(stores[ServiceStore],
                                                          queryEmbedding.embedding, 10) :
                               LET services ==
                                       [i \in 1..Len(results) |->
                                           [id |-> results[i].document.id,
                                            type |-> results[i].document.type,
                                            name |-> OrDefault(results[i].document.name,
                                                               results[i].document.id),
                                            relevance |-> results[i].score]] \o <<>>
                               IN  response' = [response EXCEPT ![h] =
                                       Result([count |-> Len(services), services |-> services])]
                         /\ pc' = [pc EXCEPT ![h] = "done"]
                         /\ loc' = [loc EXCEPT ![h].queryEmbedding = queryEmbedding.embedding,
                                               ![h].searched = {ServiceStore}]
                         /\ faults' = faults + Cost(outcome)
    /\ UNCHANGED <<storeVars, openai, calls, stores, isIndexed, invocations>>

OfType(results, type) == SelectSeq(results, LAMBDA r : r.document.type = type)

\* case "get-service-docs"
GetServiceDocs(h) ==
    /\ \E request \in {r \in Requests : r.name = "get-service-docs"} :
          /\ Dispatch(h, request)
          /\ LET serviceId == request.args.serviceId
                 query == request.args.query
                 hasQuery == query \notin {Undefined, Null, <<>>}
                 searchQuery == IF hasQuery THEN serviceId \o Space \o query ELSE serviceId
             IN  \E outcome \in ServerProviderOutcomes :
                    LET queryEmbedding == GetEmbedding(searchQuery, outcome)
                    IN  IF queryEmbedding.threw
                        THEN /\ Throw(h, "TypeError")
                             /\ UNCHANGED <<loc, faults>>
                        ELSE /\ \E results \in SearchOutcomes(stores[DocsStore],
                                                              queryEmbedding.embedding, 10),
                                   chat \in ChatOutcomes(Cost(outcome)) :
                                   LET context == Slice0(results, 5)
                                       aiSummary ==
                                           IF openai /\ hasQuery
                                           THEN GenerateAnswer(query, context, chat).answer
                                           ELSE "null"
                                   IN  /\ response' = [response EXCEPT ![h] =
                                              Result([aiSummary |-> aiSummary,
                                                      endpoints |-> Slice0(OfType(results, "endpoint"), 10),
                                                      schemas |-> Slice0(OfType(results, "schema"), 5),
                                                      readmes |-> Slice0(OfType(results, "readme"), 3)])]
                                       /\ faults' = faults + Cost(outcome)
                                             + (IF openai /\ hasQuery /\ chat = "fail" THEN 1 ELSE 0)
                             /\ pc' = [pc EXCEPT ![h] = "done"]
                             /\ loc' = [loc EXCEPT ![h].queryEmbedding = queryEmbedding.embedding,
                                                   ![h].searched = {DocsStore}]
    /\ UNCHANGED <<storeVars, openai, calls, stores, isIndexed, invocations>>

\* case "ask": the question is embedded and serviceStore is searched; the
\* handler suspends before it searches docsStore
AskServices(h) ==
    /\ \E request \in {r \in Requests : r.name = "ask"} :
          /\ Dispatch(h, request)
          /\ \E outcome \in ServerProviderOutcomes :
                LET queryEmbedding == GetEmbedding(request.args.question, outcome)
                IN  IF queryEmbedding.threw
                    THEN /\ Throw(h, "TypeError")
                         /\ UNCHANGED <<loc, faults>>
                    ELSE /\ \E results \in SearchOutcomes(stores[ServiceStore],
                                                          queryEmbedding.embedding, 3) :
                               loc' = [loc EXCEPT ![h].queryEmbedding = queryEmbedding.embedding,
                                                  ![h].searched = {ServiceStore},
                                                  ![h].serviceResults = results]
                         /\ pc' = [pc EXCEPT ![h] = "askDocs"]
                         /\ faults' = faults + Cost(outcome)
                         /\ UNCHANGED response
    /\ UNCHANGED <<storeVars, openai, calls, stores, isIndexed, invocations>>

\* ask: one block of the context per result; a document of another type adds none
ServiceBlocks(results) ==
    [i \in 1..Len(results) |-> [kind |-> "Service", of |-> results[i].document]] \o <<>>

DocBlocks(results) ==
    LET known == SelectSeq(results,
                    LAMBDA r : r.document.type \in {"endpoint", "schema", "readme"})
    IN  [i \in 1..Len(known) |->
            [kind |-> known[i].document.type, of |-> known[i].document]] \o <<>>

\* ask: formatting a schema block calls r.document.properties.join(", "), which
\* throws a TypeError when properties is no array
BlockRaises(r) ==
    r.document.type = "schema" /\ r.document.properties \in {Undefined, Null}

\* the separator contextParts.join("\n\n---\n\n") puts between two blocks
ContextSeparator == [kind |-> "---"]

\* Array.prototype.join on the blocks: the blocks with the separator between
JoinBlocks(parts) ==
    [k \in 1..(IF parts = <<>> THEN 0 ELSE 2 * Len(parts) - 1) |->
        IF k % 2 = 1 THEN parts[(k + 1) \div 2] ELSE ContextSeparator] \o <<>>

ContextPartsDocsFirst(serviceResults, docResults) ==
    DocBlocks(docResults) \o ServiceBlocks(serviceResults)

\* ask: contextParts after the two loops
ContextParts(serviceResults, docResults) ==
    ServiceBlocks(serviceResults) \o DocBlocks(docResults)

\* case "ask": docsStore is searched, the context is built, generateAnswer is
\* called and the response returned
AskDocs(h) ==
    /\ pc[h] = "askDocs"
    /\ LET maxResults == DefaultTo(req[h].args.maxResults, 5)
           serviceResults == loc[h].serviceResults
       IN  \E docResults \in SearchOutcomes(stores[DocsStore], loc[h].queryEmbedding,
                                            maxResults),
              chat \in ChatOutcomes(0) :
              IF \E i \in 1..Len(docResults) : BlockRaises(docResults[i])
              THEN /\ Throw(h, "TypeError")
                   /\ loc' = [loc EXCEPT ![h].searched = @ \cup {DocsStore}]
                   /\ UNCHANGED faults
              ELSE LET context == JoinBlocks(ContextParts(serviceResults, docResults))
                       result == GenerateAnswer(req[h].args.question, context, chat)
                   IN  /\ response' = [response EXCEPT ![h] =
                              Result([answer |-> result.answer,
                                      context |-> result.context,
                                      services |-> serviceResults,
                                      documents |-> docResults])]
                       /\ pc' = [pc EXCEPT ![h] = "done"]
                       /\ faults' = faults + (IF chat = "fail" THEN 1 ELSE 0)
                       /\ loc' = [loc EXCEPT ![h].searched = @ \cup {DocsStore},
                                             ![h].context = context,
                                             ![h].chat = chat]
    /\ UNCHANGED <<storeVars, openai, calls, stores, isIndexed, req, invocations>>

\* default: throw new Error(`Unknown tool: ${name}`)
UnknownTool(h) ==
    /\ \E request \in {r \in Requests :
                           r.name \notin {"resolve-service-id", "get-service-docs", "ask"}} :
          Dispatch(h, request)
    /\ Throw(h, "Unknown tool")
    /\ UNCHANGED <<storeVars, openai, calls, stores, isIndexed, loc, invocations, faults>>

\* --------------------------------------------------------------- the server

ServerStart ==
    /\ stores = [n \in StoreNames |-> EmptyStore]
    /\ isIndexed = FALSE
    /\ pc = [h \in Handlers |-> "idle"]
    /\ req = [h \in Handlers |-> NoRequest]
    /\ loc = [h \in Handlers |-> NoLoc]
    /\ response = [h \in Handlers |-> NoResponse]
    /\ invocations = 0
    /\ faults = 0

Init ==
    /\ openai \in BOOLEAN
    /\ ServerStart
    /\ vs = EmptyStore
    /\ lastOp = NoOp
    /\ calls = <<>>

\* one step of the invocation in slot h
Run(h) ==
    \/ IndexApi(h)
    \/ FetchRepos(h)
    \/ IndexRepo(h)
    \/ FetchSpec(h)
    \/ IndexEndpoint(h)
    \/ IndexSchema(h)
    \/ FetchReposDocs(h)
    \/ IndexReadme(h)
    \/ SetIndexed(h)
    \/ ResolveServiceId(h)
    \/ GetServiceDocs(h)
    \/ AskServices(h)
    \/ AskDocs(h)
    \/ UnknownTool(h)

\* one invocation at a time: each runs to its response before the next starts
Next ==
    \/ Start(1)
    \/ Run(1)

Spec == Init /\ [][Next]_vars

\* invocations overlap: a second handler starts while the first is suspended
OverlapNext ==
    \E h \in Handlers :
        \/ Start(h)
        \/ Run(h)

\* the overlap is explored without a provider and with no failing request
OverlapInit ==
    /\ openai = FALSE
    /\ stores = [n \in StoreNames |-> EmptyStore]
    /\ isIndexed = FALSE
    /\ pc = [h \in Handlers |-> "idle"]
    /\ req = [h \in Handlers |-> NoRequest]
    /\ loc = [h \in Handlers |-> NoLoc]
    /\ response = [h \in Handlers |-> NoResponse]
    /\ invocations = 0
    /\ faults = MaxFaults
    /\ vs = EmptyStore
    /\ lastOp = NoOp
    /\ calls = <<>>

OverlapSpec == OverlapInit /\ [][OverlapNext]_vars


\* --------------------------------------------------------------- a VectorStore driven directly

Docs == {"d1", "d2"}

\* vectors handed to the store, and vectors used as queries; the all-zero
\* vector is what the fallback embedder returns for a text without tokens
Vecs == {[v |-> w, d |-> 1] : w \in {<<0, 0>>, <<1, 0>>, <<1, 1>>}}

QueryVecs == {[v |-> w, d |-> 1] : w \in {<<0, 0>>, <<1, 0>>, <<0, 1>>}}

TopKs == (-1)..(MaxDocs + 1)

VsAddDocument ==
    /\ Len(vs.documents) < MaxDocs
    /\ \E doc \in Docs, embedding \in Vecs :
          /\ vs' = AddDocument(vs, doc, embedding)
          /\ lastOp' = [op |-> "addDocument", doc |-> doc, emb |-> embedding, topK |-> 0,
                        before |-> vs, result |-> <<>>, prev |-> lastOp.op,
                        sinceClear |-> Min(lastOp.sinceClear + 1, 3)]
    /\ UNCHANGED <<openai, calls, serverVars>>

VsSearchSortsInPlace ==
    /\ \E queryEmbedding \in QueryVecs, topK \in TopKs :
          \E result \in SearchOutcomes(vs, queryEmbedding, topK) :
              /\ lastOp' = [op |-> "search", doc |-> "", emb |-> queryEmbedding,
                            topK |-> topK, before |-> vs, result |-> result,
                            prev |-> lastOp.op,
                            sinceClear |-> Min(lastOp.sinceClear + 1, 3)]
              /\ vs' = [documents |-> [i \in 1..Len(result) |-> result[i].document] \o <<>>,
                        embeddings |-> SubSeq(vs.embeddings, 1, Len(result))]
    /\ UNCHANGED <<openai, calls, serverVars>>

\* search(queryEmbedding, topK) is called on the store; it assigns neither field
VsSearch ==
    /\ \E queryEmbedding \in QueryVecs, topK \in TopKs :
          \E result \in SearchOutcomes(vs, queryEmbedding, topK) :
              lastOp' = [op |-> "search", doc |-> "", emb |-> queryEmbedding,
                         topK |-> topK, before |-> vs, result |-> result,
                         prev |-> lastOp.op,
                         sinceClear |-> Min(lastOp.sinceClear + 1, 3)]
    /\ UNCHANGED <<vs, openai, calls, serverVars>>

VsClear ==
    /\ vs' = Clear(vs)
    /\ lastOp' = [op |-> "clear", doc |-> "", emb |-> <<>>, topK |-> 0,
                  before |-> vs, result |-> <<>>, prev |-> lastOp.op, sinceClear |-> 0]
    /\ UNCHANGED <<openai, calls, serverVars>>

StoreInit ==
    /\ vs = EmptyStore
    /\ lastOp = NoOp
    /\ openai = FALSE
    /\ calls = <<>>
    /\ ServerStart

StoreNext == VsAddDocument \/ VsSearch \/ VsClear

StoreSpec == StoreInit /\ [][StoreNext]_vars

\* --------------------------------------------------------------- claims on the VectorStore

\* C1: in every state reached by addDocument, search and clear calls, documents
\* and embeddings of the store have the same length.
C1_EqualLengths == Len(vs.documents) = Len(vs.embeddings)

\* C1 witness: an addDocument call has returned and the store holds entries.
C1_Witness ==
    /\ lastOp.op = "addDocument"
    /\ Len(vs.documents) = MaxDocs
    /\ Len(vs.embeddings) = MaxDocs

\* the results are in non-increasing score order, as >= on doubles reads it
NonIncreasing(result) ==
    \A i \in 1..(Len(result) - 1) : ScoreGeq(result[i].score, result[i + 1].score)

\* C2: for every store content, query embedding and topK (a count, so topK >= 0),
\* search returns its results in non-increasing score order and returns
\* min(topK, number of stored documents) of them.
C2_RankedAndCounted ==
    (lastOp.op = "search" /\ lastOp.topK >= 0) =>
        /\ NonIncreasing(lastOp.result)
        /\ Len(lastOp.result) = Min(lastOp.topK, Len(lastOp.before.documents))

\* C6: no result returned by search carries a NaN score, also when the query
\* or a stored embedding is the all-zero vector.
C6_NoNaNScore ==
    lastOp.op = "search" => \A i \in 1..Len(lastOp.result) : ~lastOp.result[i].score.nan

\* C10: addDocument(d, e) appends: d and e are the last elements, each length
\* grew by exactly one, and every earlier pair is unchanged at its index.
C10_AddDocumentAppends ==
    lastOp.op = "addDocument" =>
        LET n == Len(lastOp.before.documents)
        IN  /\ Len(vs.documents) = n + 1
            /\ Len(vs.embeddings) = Len(lastOp.before.embeddings) + 1
            /\ vs.documents[Len(vs.documents)] = lastOp.doc
            /\ vs.embeddings[Len(vs.embeddings)] = lastOp.emb
            /\ \A i \in 1..n :
                  /\ vs.documents[i] = lastOp.before.documents[i]
                  /\ vs.embeddings[i] = lastOp.before.embeddings[i]

\* C10 witness: addDocument was called on a store that already held a
\* different pair.
C10_Witness ==
    /\ lastOp.op = "addDocument"
    /\ Len(lastOp.before.documents) >= 1
    /\ lastOp.before.documents[1] # lastOp.doc
    /\ lastOp.before.embeddings[1] # lastOp.emb

\* C12: search on an empty store, never populated or just cleared, returns
\* the empty sequence, for any query embedding and any topK.
C12_EmptyStoreSearch ==
    (lastOp.op = "search" /\ Len(lastOp.before.embeddings) = 0) => lastOp.result = <<>>

\* C12 witness: a store was cleared and then searched with a non-zero query
\* and the largest topK.
C12_Witness ==
    /\ lastOp.op = "search"
    /\ lastOp.prev = "clear"
    /\ lastOp.before = EmptyStore
    /\ lastOp.topK = MaxDocs + 1
    /\ lastOp.emb.v # <<0, 0>>
    /\ lastOp.result = <<>>

\* C13: clear() leaves documents and embeddings empty whatever the store held;
\* a search right after clear returns [], and an addDocument that follows
\* leaves the store with exactly one entry.
C13_ClearResets ==
    /\ lastOp.op = "clear" => (vs.documents = <<>> /\ vs.embeddings = <<>>)
    /\ (lastOp.op = "search" /\ lastOp.sinceClear = 1) => lastOp.result = <<>>
    /\ (lastOp.op = "addDocument" /\ lastOp.prev = "search" /\ lastOp.sinceClear = 2) =>
          /\ vs.documents = <<lastOp.doc>>
          /\ vs.embeddings = <<lastOp.emb>>

\* C13 witness: clear, then search, then addDocument were called in a row and
\* the store holds the one entry just added.
C13_Witness ==
    /\ lastOp.op = "addDocument"
    /\ lastOp.prev = "search"
    /\ lastOp.sinceClear = 2
    /\ Len(vs.documents) = 1

\* C13 witness: clear was called on a full store.
C13_WitnessFull ==
    /\ lastOp.op = "clear"
    /\ Len(lastOp.before.documents) = MaxDocs
    /\ vs = EmptyStore

\* --------------------------------------------------------------- search on populated stores

\* the documents are told apart by the position they were inserted at
TieDoc(i) == [id |-> i]

\* the stores that n addDocument calls leave, for every choice of embeddings
TieStores ==
    UNION {{[documents |-> [i \in 1..n |-> TieDoc(i)] \o <<>>, embeddings |-> e \o <<>>] :
                e \in [1..n -> Vecs]} : n \in 0..MaxTieDocs}

TieInit ==
    /\ vs \in TieStores
    /\ lastOp = NoOp
    /\ openai = FALSE
    /\ calls = <<>>
    /\ ServerStart

TieNext == VsSearch \/ VsClear

TieSpec == TieInit /\ [][TieNext]_vars

\* the score search computes for the document at index i of the store
ScoreOf(st, queryEmbedding, i) == CosineSimilarity(queryEmbedding, st.embeddings[i])

Texts == {TextWebhookEvents, TextWebhookEventsUpper, TextHi}

EmbedCall ==
    /\ Len(calls) < MaxCalls
    /\ \E text \in Texts \cup {Undefined}, outcome \in ProviderOutcomes :
          calls' = Append(calls, [text |-> text, outcome |-> outcome,
                                  result |-> GetEmbedding(text, outcome)])
    /\ UNCHANGED <<vs, lastOp, openai, serverVars>>

EmbedInit ==
    /\ openai \in BOOLEAN
    /\ calls = <<>>
    /\ vs = EmptyStore
    /\ lastOp = NoOp
    /\ ServerStart

EmbedNext == EmbedCall

EmbedSpec == EmbedInit /\ [][EmbedNext]_vars

\* C7: getEmbedding never propagates a provider failure: without a provider,
\* or when the provider call throws, it returns simpleEmbedding(text) for the
\* same text.
C7_FallbackOnFailure ==
    \A i \in 1..Len(calls) :
        (IsText(calls[i].text) /\ (~openai \/ ~calls[i].outcome.ok)) =>
            /\ ~calls[i].result.threw
            /\ calls[i].result.embedding = SimpleEmbedding(calls[i].text, dimensions)

\* C7 witness: both cases happened, a call without a provider and a call whose
\* provider request threw, each on a text with words.
C7_WitnessNoProvider ==
    \E i \in 1..Len(calls) :
        /\ ~openai
        /\ calls[i].text = TextWebhookEvents
        /\ calls[i].result.embedding.v[26] = 1

C7_Witness ==
    \E i \in 1..Len(calls) :
        /\ openai
        /\ calls[i].outcome = ProviderFails
        /\ calls[i].text = TextWebhookEvents
        /\ calls[i].result.embedding.v[26] = 1
        /\ calls[i].result.embedding.v[120] = 1
        /\ calls[i].result.embedding.d = 2

\* C8: the fallback is per call: a call whose provider request succeeds
\* returns the provider's vector, also after an earlier call fell back.
C8_PerCallFallback ==
    \A i \in 1..Len(calls) :
        (IsText(calls[i].text) /\ openai /\ calls[i].outcome.ok) =>
            /\ ~calls[i].result.threw
            /\ calls[i].result.embedding = calls[i].outcome.embedding

\* C8 witness: a call fell back to the fallback embedder and the next call
\* returned the provider's vector.
C8_Witness ==
    /\ Len(calls) >= 2
    /\ calls[1].outcome = ProviderFails
    /\ calls[1].result = Returned(SimpleEmbedding(calls[1].text, dimensions))
    /\ calls[2].outcome.ok
    /\ calls[2].result.embedding \in ProviderVecs

\* --------------------------------------------------------------- claims on the server

\* no document is held twice by a store
NoDuplicateEntries ==
    \A n \in StoreNames :
        \A i, j \in 1..Len(stores[n].documents) :
            i # j => stores[n].documents[i] # stores[n].documents[j]

\* C3: when two tool invocations overlap (the second calls ensureIndexed while
\* the first is suspended inside indexServices or indexDocs), no source record
\* is added to its store twice.
C3_NoDuplicatesOnOverlap == NoDuplicateEntries

\* C4: once an ensureIndexed call has completed (the flag is set), no later
\* tool invocation adds a document to serviceStore or docsStore.
C4_IndexedOnce == [][isIndexed => stores' = stores]_vars

\* C4 witness: a second invocation found the flag set, did not index and
\* returned its tool's result from the stores the first invocation filled.
C4_Witness ==
    /\ isIndexed
    /\ invocations = MaxInvocations
    /\ pc[1] = "done"
    /\ ~loc[1].ran
    /\ response[1].sent
    /\ ~response[1].isError
    /\ stores[ServiceStore].documents # <<>>
    /\ stores[DocsStore].documents # <<>>

\* C5: all embeddings held in one store have the same length, and every query
\* embedding searched against that store has that length, whatever mix of
\* provider successes and fallbacks occurred.
C5_UniformLengths ==
    \A n \in StoreNames :
        LET embeddings == stores[n].embeddings
        IN  /\ \A i, j \in 1..Len(embeddings) : Len(embeddings[i].v) = Len(embeddings[j].v)
            /\ \A h \in Handlers :
                  n \in loc[h].searched =>
                      \A i \in 1..Len(embeddings) :
                          Len(embeddings[i].v) = Len(loc[h].queryEmbedding.v)

InStore(n, doc) == \E i \in 1..Len(stores[n].documents) : stores[n].documents[i] = doc

\* the invocation in slot h ran ensureIndexed's indexing and it has ended
IndexingEnded(h) == loc[h].ran /\ pc[h] \in {"tool", "askDocs", "done"}

\* C9: a failure fetching one external record (a README, the API
\* specification, the repository listing) does not abort indexing: when the
\* indexing of an invocation has ended, every record whose fetch did not fail
\* is in its store.
C9_FailureDoesNotAbort ==
    \A h \in Handlers :
        IndexingEnded(h) =>
            /\ InStore(ServiceStore, ApiDoc)
            /\ <<"repos", 0>> \notin loc[h].failed =>
                  \A i \in 1..Len(FetchOrgRepos) :
                      InStore(ServiceStore, RepoDoc(FetchOrgRepos[i]))
            /\ <<"spec", 0>> \notin loc[h].failed =>
                  /\ \A i \in 1..Len(HttpOperations) :
                        InStore(DocsStore, EndpointDoc(HttpOperations[i]))
                  /\ \A i \in 1..Len(ApiSpecSchemas) :
                        InStore(DocsStore, SchemaDoc(ApiSpecSchemas[i]))
            /\ <<"reposDocs", 0>> \notin loc[h].failed =>
                  \A i \in 1..Len(ReadmeRepos) :
                      <<"readme", i>> \notin loc[h].failed =>
                          InStore(DocsStore,
                                  ReadmeDoc(ReadmeRepos[i], GitHubReadme(ReadmeRepos[i].id)))

\* the messages of the errors that can be thrown inside the handler
ErrorMessages == {"GitHub API error", "TypeError", "Unknown tool"}

\* the fields of each tool's result
ResultFields(name) ==
    IF name = "resolve-service-id" THEN {"count", "services"}
    ELSE IF name = "get-service-docs" THEN {"aiSummary", "endpoints", "schemas", "readmes"}
    ELSE {"answer", "context", "services", "documents"}

\* C14: every invocation of the handler ends by returning a response: the
\* tool's result, or an isError response carrying the message of what failed
\* inside it (indexing, embedding, unknown tool name).
C14_AlwaysResponds ==
    \A h \in Handlers :
        pc[h] = "done" =>
            /\ response[h].sent
            /\ IF response[h].isError
               THEN response[h].body \in ErrorMessages
               ELSE DOMAIN response[h].body = ResultFields(req[h].name)

\* C14 witness: an invocation whose indexing failed ended with an isError
\* response carrying the message.
C14_Witness ==
    /\ pc[1] = "done"
    /\ loc[1].ran
    /\ response[1] = ErrorResult("GitHub API error")

\* C14 witness: an invocation ended with its tool's result.
C14_WitnessResult ==
    /\ pc[1] = "done"
    /\ req[1].name = "ask"
    /\ response[1].sent
    /\ ~response[1].isError

\* the invocation in slot h served the ask tool and returned its result
AskReturned(h) ==
    /\ pc[h] = "done"
    /\ req[h].name = "ask"
    /\ response[h].sent
    /\ ~response[h].isError

\* C15: generateAnswer never throws and returns {answer, context} with the
\* context it was given, in all three cases: no provider (the answer says
\* synthesis is unavailable), the provider answers (the synthesized text), the
\* provider throws (the answer carries the error).
C15_GenerateAnswerKeepsContext ==
    \A h \in Handlers :
        AskReturned(h) =>
            /\ response[h].body.context = loc[h].context
            /\ response[h].body.answer =
                  (IF ~openai THEN "AI synthesis unavailable"
                   ELSE IF loc[h].chat = "ok" THEN "synthesized"
                   ELSE "AI error")

\* C15 witness: the chat completion request threw and ask returned the error
\* answer together with a context that is not empty.
C15_Witness ==
    /\ AskReturned(1)
    /\ openai
    /\ loc[1].chat = "fail"
    /\ response[1].body.answer = "AI error"
    /\ response[1].body.context # <<>>

\* C15 witness: no provider is configured, and the provider answered.
C15_WitnessUnavailable ==
    AskReturned(1) /\ ~openai /\ response[1].body.context # <<>>

C15_WitnessSynthesized ==
    AskReturned(1) /\ openai /\ loc[1].chat = "ok" /\ response[1].body.context # <<>>

\* C16: the context ask assembles holds one block per serviceStore result
\* first, then the blocks of the docsStore results, each group in the order
\* search returned it, with the separator between two blocks.
C16_ServicesBeforeDocs ==
    \A h \in Handlers :
        AskReturned(h) =>
            LET context == loc[h].context
                services == response[h].body.services
                documents == SelectSeq(response[h].body.documents,
                                 LAMBDA r : r.document.type \in {"endpoint", "schema", "readme"})
                n == Len(services) + Len(documents)
            IN  /\ Len(context) = IF n = 0 THEN 0 ELSE 2 * n - 1
                /\ \A i \in 1..Len(services) :
                      context[2 * i - 1] = [kind |-> "Service", of |-> services[i].document]
                /\ \A j \in 1..Len(documents) :
                      context[2 * (Len(services) + j) - 1] =
                          [kind |-> documents[j].document.type, of |-> documents[j].document]
                /\ \A k \in 1..(n - 1) : context[2 * k] = ContextSeparator

\* C16 witness: ask returned a context built from three service results and
\* several document results.
C16_Witness ==
    /\ AskReturned(1)
    /\ Len(response[1].body.services) = 3
    /\ Len(response[1].body.documents) >= 2
    /\ Len(loc[1].context) >= 9

\* --------------------------------------------------------------- simpleEmbedding driven directly

SimpleTexts ==
    {TextEmpty, TextHi, TextWebhookEvents, TextEventsWebhook, TextWebhookEventsUpper,
     TextApiApiSso, TextSsoApiApi}

\* the dimensionalities simpleEmbedding is called with: the smallest, a small
\* one and the default
SimpleDims == {1, 4, dimensions}

SimpleCall ==
    /\ Len(calls) < MaxCalls
    /\ \E text \in SimpleTexts, dims \in SimpleDims :
          calls' = Append(calls, [text |-> text, dims |-> dims,
                                  result |-> SimpleEmbedding(text, dims)])
    /\ UNCHANGED <<vs, lastOp, openai, serverVars>>

SimpleInit ==
    /\ openai = FALSE
    /\ calls = <<>>
    /\ vs = EmptyStore
    /\ lastOp = NoOp
    /\ ServerStart

SimpleNext == SimpleCall

SimpleSpec == SimpleInit /\ [][SimpleNext]_vars

SameBag(s, t) ==
    /\ Len(s) = Len(t)
    /\ \A k \in 1..Len(s) :
          Cardinality({i \in 1..Len(s) : s[i] = s[k]})
              = Cardinality({i \in 1..Len(t) : t[i] = s[k]})

\* C18: two texts whose surviving tokens form the same multiset, in any
\* order, embed to the identical vector.
C18_OrderInsensitive ==
    \A i, j \in 1..Len(calls) :
        (calls[i].dims = calls[j].dims
         /\ SameBag(Words(calls[i].text), Words(calls[j].text))) =>
            calls[i].result = calls[j].result

\* C18 witness: "api api sso" and "sso api api" were embedded: the same
\* tokens, one of them twice, in another order.
C18_Witness ==
    /\ Len(calls) >= 2
    /\ calls[1].text = TextApiApiSso
    /\ calls[2].text = TextSsoApiApi
    /\ calls[1].dims = dimensions
    /\ calls[2].dims = dimensions
    /\ Words(calls[1].text) # Words(calls[2].text)
    /\ calls[1].result.d = 5

\* C19: for a text with a surviving token the returned vector has Euclidean
\* norm 1 (the squares of the counts sum to the square of the divisor); for a
\* text without one (empty, or only tokens of length <= 2) it is all zeros.
C19_UnitNormOrZero ==
    \A i \in 1..Len(calls) :
        LET v == calls[i].result.v
            sumSq == SumSeq([k \in 1..Len(v) |-> v[k] * v[k]] \o <<>>)
        IN  IF Words(calls[i].text) # <<>>
            THEN sumSq = calls[i].result.d
            ELSE \A k \in 1..Len(v) : v[k] = 0

\* C19 witness: a text with a repeated token and a text with only a short
\* token were embedded.
C19_Witness ==
    /\ Len(calls) >= 2
    /\ calls[1].text = TextApiApiSso
    /\ calls[1].result.d = 5
    /\ calls[2].text = TextHi
    /\ calls[2].dims = dimensions
    /\ Len(calls[2].result.v) = dimensions

\* C27: for every text and dimensionality D >= 1 the returned vector has
\* exactly D components, the hash of every surviving token lies in 0..D-1, and
\* the bucket counts (the numerators, before the division by the norm) sum to
\* the number of surviving tokens.
C27_BucketsCountTokens ==
    \A i \in 1..Len(calls) :
        LET words == Words(calls[i].text)
            D == calls[i].dims
        IN  /\ D >= 1
            /\ Len(calls[i].result.v) = D
            /\ \A k \in 1..Len(words) : WordHash(words[k], 0, D) \in 0..(D - 1)
            /\ \A b \in 1..D : calls[i].result.v[b] \in 0..Len(words)
            /\ SumSeq(calls[i].result.v) = Len(words)

\* C27 witness: three tokens were embedded in one dimension and two tokens in
\* four.
C27_Witness ==
    /\ Len(calls) >= 2
    /\ calls[1].text = TextApiApiSso
    /\ calls[1].dims = 1
    /\ calls[1].result.v = <<3>>
    /\ calls[2].text = TextWebhookEvents
    /\ calls[2].dims = 4
    /\ SumSeq(calls[2].result.v) = 2

\* --------------------------------------------------------------- cosineSimilarity driven directly

\* the vectors a store and a query can hold: fallback vectors, the all-zero
\* one among them, and a provider vector, which has another length
CosineVecs == Vecs \cup QueryVecs \cup {ServerProviderVec}

CosineCall ==
    /\ Len(calls) < MaxCalls
    /\ \E a \in CosineVecs, b \in CosineVecs :
          calls' = Append(calls, [a |-> a, b |-> b,
                                  ab |-> CosineSimilarity(a, b),
                                  ba |-> CosineSimilarity(b, a)])
    /\ UNCHANGED <<vs, lastOp, openai, serverVars>>

CosineInit ==
    /\ openai = FALSE
    /\ calls = <<>>
    /\ vs = EmptyStore
    /\ lastOp = NoOp
    /\ ServerStart

CosineNext == CosineCall

CosineSpec == CosineInit /\ [][CosineNext]_vars

\* C20: cosineSimilarity(a, b) equals cosineSimilarity(b, a) for all pairs of
\* vectors, also when one of them is all zeros (== on doubles).
C20_Symmetric ==
    \A i \in 1..Len(calls) : ScoreEq(calls[i].ab, calls[i].ba)

\* --------------------------------------------------------------- more claims on the server

\* C21: a schema with no properties and no description is indexed as a
\* document with properties = [] and description = "", and an ask that formats
\* that document does not fail on it.
C21_IncompleteSchemaIsEmpty ==
    /\ \A i \in 1..Len(stores[DocsStore].documents) :
          LET doc == stores[DocsStore].documents[i]
          IN  (doc.type = "schema" /\ doc.name = TextWebhook) =>
                  (doc.properties = <<>> /\ doc.description = <<>>)
    /\ \A h \in Handlers :
          (pc[h] = "done" /\ req[h].name = "ask" /\ response[h].isError) =>
              response[h].body # "TypeError"

\* C21 witness: ask returned a context with the block of the schema that was
\* indexed without properties and description.
C21_Witness ==
    /\ AskReturned(1)
    /\ \E k \in 1..Len(loc[1].context) :
          /\ loc[1].context[k].kind = "schema"
          /\ loc[1].context[k].of.properties = <<>>
          /\ loc[1].context[k].of.description = <<>>

\* --------------------------------------------------------------- documents indexed with the fallback embedder

\* "webhook configuration events"
TextWebhookConfigurationEvents ==
    <<119, 101, 98, 104, 111, 111, 107, 32, 99, 111, 110, 102, 105, 103, 117, 114, 97, 116, 105, 111, 110, 32, 101, 118, 101, 110, 116, 115>>

\* "payment gateway integration"
TextPaymentGatewayIntegration ==
    <<112, 97, 121, 109, 101, 110, 116, 32, 103, 97, 116, 101, 119, 97, 121, 32, 105, 110, 116, 101, 103, 114, 97, 116, 105, 111, 110>>

\* "getting started guide install"
TextGettingStartedGuideInstall ==
    <<103, 101, 116, 116, 105, 110, 103, 32, 115, 116, 97, 114, 116, 101, 100, 32, 103, 117, 105, 100, 101, 32, 105, 110, 115, 116, 97, 108, 108>>

ScenarioTexts ==
    {TextWebhookConfigurationEvents, TextPaymentGatewayIntegration,
     TextGettingStartedGuideInstall}

ScenarioQueries == ScenarioTexts \cup {TextWebhookEvents}

\* a text is indexed the way indexDocs does without a provider: the document
\* is added with the fallback embedding of its text
ScenarioIndex ==
    /\ Len(vs.documents) < MaxScenarioDocs
    /\ \E text \in ScenarioTexts :
          LET embedding == GetEmbedding(text, NotCalled).embedding
          IN  /\ vs' = AddDocument(vs, text, embedding)
              /\ lastOp' = [op |-> "addDocument", doc |-> text, emb |-> embedding,
                            topK |-> 0, before |-> vs, result |-> <<>>,
                            prev |-> lastOp.op,
                            sinceClear |-> Min(lastOp.sinceClear + 1, 3)]
    /\ UNCHANGED <<openai, calls, serverVars>>

\* a query text is embedded and the store searched, as the tools do
ScenarioSearch ==
    /\ \E query \in ScenarioQueries, topK \in 1..MaxScenarioDocs :
          LET queryEmbedding == GetEmbedding(query, NotCalled).embedding
          IN  \E result \in SearchOutcomes(vs, queryEmbedding, topK) :
                  lastOp' = [op |-> "search", doc |-> query, emb |-> queryEmbedding,
                             topK |-> topK, before |-> vs, result |-> result,
                             prev |-> lastOp.op,
                             sinceClear |-> Min(lastOp.sinceClear + 1, 3)]
    /\ UNCHANGED <<vs, openai, calls, serverVars>>

ScenarioInit ==
    /\ vs = EmptyStore
    /\ lastOp = NoOp
    /\ openai = FALSE
    /\ calls = <<>>
    /\ ServerStart

ScenarioNext == ScenarioIndex \/ ScenarioSearch

ScenarioSpec == ScenarioInit /\ [][ScenarioNext]_vars

\* the three documents of the scenario, in the order they are indexed
ScenarioDocuments ==
    <<TextWebhookConfigurationEvents, TextPaymentGatewayIntegration,
      TextGettingStartedGuideInstall>>

\* C22: with the fallback embedder, after indexing "webhook configuration
\* events", "payment gateway integration" and "getting started guide install"
\* in that order, a search for "webhook events" returns the first document as
\* the top-ranked result.
C22_WebhookEventsRanksFirst ==
    (/\ lastOp.op = "search"
     /\ lastOp.before.documents = ScenarioDocuments
     /\ lastOp.doc = TextWebhookEvents) =>
        /\ Len(lastOp.result) >= 1
        /\ lastOp.result[1].document = TextWebhookConfigurationEvents

\* C22 witness: the three documents were indexed in that order and the store
\* was searched for "webhook events" with topK = 3; the first document scores
\* 2 / sqrt(6) and the other two 0.
C22_Witness ==
    /\ lastOp.op = "search"
    /\ lastOp.before.documents = ScenarioDocuments
    /\ lastOp.doc = TextWebhookEvents
    /\ lastOp.topK = 3
    /\ Len(lastOp.result) = 3
    /\ lastOp.result[1].score = Number(2, 6)
    /\ IsZeroScore(lastOp.result[2].score)
    /\ IsZeroScore(lastOp.result[3].score)

Copies(n, doc) ==
    Cardinality({i \in 1..Len(stores[n].documents) : stores[n].documents[i] = doc})

\* C24: after sequential invocations in which an earlier indexing attempt
\* failed partway (isIndexed stayed false after documents were added), each
\* source record is held at most once in its store: the retry does not add
\* again what the failed attempt added.
C24_RetryAddsNoDuplicates ==
    /\ Copies(ServiceStore, ApiDoc) <= 1
    /\ \A i \in 1..Len(FetchOrgRepos) : Copies(ServiceStore, RepoDoc(FetchOrgRepos[i])) <= 1
    /\ \A i \in 1..Len(HttpOperations) : Copies(DocsStore, EndpointDoc(HttpOperations[i])) <= 1
    /\ \A i \in 1..Len(ApiSpecSchemas) : Copies(DocsStore, SchemaDoc(ApiSpecSchemas[i])) <= 1
    /\ \A i \in 1..Len(ReadmeRepos) :
          Copies(DocsStore, ReadmeDoc(ReadmeRepos[i], GitHubReadme(ReadmeRepos[i].id))) <= 1

\* --------------------------------------------------------------- more claims on the VectorStore

\* C25: search is read-only: documents and embeddings are the same sequences
\* after the call as before, and every returned document is an element of
\* the store.
C25_SearchIsReadOnly ==
    lastOp.op = "search" =>
        /\ vs.documents = lastOp.before.documents
        /\ vs.embeddings = lastOp.before.embeddings
        /\ \A i \in 1..Len(lastOp.result) :
              \E k \in 1..Len(vs.documents) : lastOp.result[i].document = vs.documents[k]

\* C25 witness: a search on a full store returned its documents in another
\* order than they are stored in.
C25_Witness ==
    /\ lastOp.op = "search"
    /\ Len(vs.documents) = MaxDocs
    /\ Len(lastOp.result) = MaxDocs
    /\ lastOp.result[1].document = vs.documents[MaxDocs]
    /\ lastOp.result[1].document # vs.documents[1]

\* C26: on a non-empty store, search with topK <= 0 returns the empty
\* sequence; the result never has more than max(topK, 0) entries.
C26_NonPositiveTopK ==
    (lastOp.op = "search" /\ lastOp.before.documents # <<>>) =>
        /\ lastOp.topK <= 0 => lastOp.result = <<>>
        /\ Len(lastOp.result) <= Max(lastOp.topK, 0)

\* --------------------------------------------------------------- the v1 server: resolve-service-id

\* String.prototype.includes: sub occurs in text as a contiguous run
Includes(text, sub) ==
    \E i \in 0..(Len(text) - Len(sub)) : SubSeq(text, i + 1, i + Len(sub)) = sub

\* value?.toLowerCase().includes(searchTerm): undefined (falsy) for a null value
OptionalLowerIncludes(value, searchTerm) ==
    IF value \in {Undefined, Null} THEN FALSE
    ELSE Includes(ToLowerCase(value), searchTerm)

\* topics?.some((t) => t.includes(searchTerm))
SomeTopicIncludes(topics, searchTerm) ==
    \E k \in 1..Len(topics) : Includes(topics[k], searchTerm)

\* SERVICE_REGISTRY, its entries in key order: the one API entry
SERVICE_REGISTRY ==
    << [id |-> <<109, 97, 114, 107, 101, 116, 112, 108, 97, 99, 101, 45, 97, 112, 105>>,
        type |-> "api",
        name |-> <<65, 68, 82, 32, 77, 97, 114, 107, 101, 116, 112, 108, 97, 99, 101, 32, 80, 108, 97, 116, 102, 111, 114, 109, 32, 65, 80, 73>>,
        description |->
            <<67, 111, 114, 101, 32, 109, 97, 114, 107, 101, 116, 112, 108, 97, 99, 101, 32, 65, 80, 73, 32, 102, 111, 114, 32, 111, 114, 103, 97, 110, 105, 122, 97, 116, 105, 111, 110, 115, 44, 32, 112, 114, 111, 103, 114, 97, 109, 115, 44, 32, 112, 97, 114, 116, 105, 99, 105, 112, 97, 110, 116, 115, 44, 32, 97, 110, 100, 32, 116, 114, 97, 110, 115, 97, 99, 116, 105, 111, 110, 115>>,
        topics |-> <<<<97, 117, 116, 104, 101, 110, 116, 105, 99, 97, 116, 105, 111, 110>>,
                    <<111, 114, 103, 97, 110, 105, 122, 97, 116, 105, 111, 110>>,
                    <<112, 114, 111, 103, 114, 97, 109>>,
                    <<112, 97, 114, 116, 105, 99, 105, 112, 97, 110, 116>>,
                    <<116, 114, 97, 110, 115, 97, 99, 116, 105, 111, 110>>,
                    <<119, 101, 98, 104, 111, 111, 107>>,
                    <<115, 115, 111>>,
                    <<112, 111, 105, 110, 116, 115>>>>] >>

\* the repositories of the organization as GitHub lists them (name,
\* description, topics): "marketplace-api", "webhook-relay", "docs",
\* "sso-gateway"; "docs" is listed without topics (<<Undefined>>)
OrgRepos ==
    { [name |-> <<109, 97, 114, 107, 101, 116, 112, 108, 97, 99, 101, 45, 97, 112, 105>>,
       description |-> <<77, 97, 114, 107, 101, 116, 112, 108, 97, 99, 101, 32, 65, 80, 73, 32, 99, 108, 105, 101, 110, 116>>,
       topics |-> <<<<115, 115, 111>>>>],
      [name |-> <<119, 101, 98, 104, 111, 111, 107, 45, 114, 101, 108, 97, 121>>,
       description |-> Null,
       topics |-> <<<<119, 101, 98, 104, 111, 111, 107>>>>],
      [name |-> <<100, 111, 99, 115>>,
       description |-> <<80, 114, 111, 103, 114, 97, 109, 115, 32, 104, 97, 110, 100, 98, 111, 111, 107>>,
       topics |-> <<Undefined>>],
      [name |-> <<115, 115, 111, 45, 103, 97, 116, 101, 119, 97, 121>>,
       description |-> <<83, 83, 79, 32, 108, 111, 103, 105, 110>>,
       topics |-> <<<<115, 115, 111>>, <<97, 117, 116, 104, 101, 110, 116, 105, 99, 97, 116, 105, 111, 110>>>>] }

\* one page of the listing: repositories of the organization, each at most once
RepoListings ==
    {s \in UNION {[1..n -> OrgRepos] : n \in 0..MaxRepos} :
        \A i, j \in 1..Len(s) : s[i] = s[j] => i = j}

\* fetchOrgRepos of the v1 server: id: r.name, topics: r.topics || []
RegistryFetchOrgRepos(listing) ==
    [i \in 1..Len(listing) |->
        [id |-> listing[i].name,
         name |-> listing[i].name,
         description |-> listing[i].description,
         topics |-> IF listing[i].topics = <<Undefined>> THEN <<>>
                    ELSE listing[i].topics]]
    \o <<>>

\* the condition of the registry loop
RegistryMatches(service, searchTerm) ==
    \/ Includes(service.id, searchTerm)
    \/ Includes(ToLowerCase(service.name), searchTerm)
    \/ OptionalLowerIncludes(service.description, searchTerm)
    \/ SomeTopicIncludes(service.topics, searchTerm)

\* the registry loop: the matching entries, in registry order
RegistryResults(searchTerm) ==
    LET hits == SelectSeq(SERVICE_REGISTRY, LAMBDA s : RegistryMatches(s, searchTerm))
    IN  [i \in 1..Len(hits) |->
            [id |-> hits[i].id, type |-> hits[i].type, name |-> hits[i].name,
             description |-> hits[i].description, topics |-> hits[i].topics]] \o <<>>

\* the condition of the repository loop
RepoMatches(repo, searchTerm) ==
    \/ Includes(ToLowerCase(repo.name), searchTerm)
    \/ OptionalLowerIncludes(repo.description, searchTerm)
    \/ SomeTopicIncludes(repo.topics, searchTerm)

PushRepoUnchecked(results, repo, searchTerm) ==
    IF RepoMatches(repo, searchTerm)
    THEN Append(results, [id |-> repo.id, type |-> "repository", name |-> repo.name,
                          description |-> repo.description, topics |-> repo.topics])
    ELSE results

\* the body of the repository loop: a matching repository is pushed unless
\* results.find((r) => r.id === repo.name) finds an entry
PushRepo(results, repo, searchTerm) ==
    IF /\ RepoMatches(repo, searchTerm)
       /\ ~ \E k \in 1..Len(results) : results[k].id = repo.name
    THEN Append(results, [id |-> repo.id, type |-> "repository", name |-> repo.name,
                          description |-> repo.description, topics |-> repo.topics])
    ELSE results

\* for (const repo of repos), from the i-th repository on
RECURSIVE PushRepos(_, _, _, _)
PushRepos(results, repos, i, searchTerm) ==
    IF i > Len(repos) THEN results
    ELSE PushRepos(PushRepo(results, repos[i], searchTerm), repos, i + 1, searchTerm)

\* the catch block of the v1 handler
RegistryError(message) == [isError |-> TRUE, text |-> message]

\* what GitHub answers the listing request with: a page, or not ok
ListingAnswers ==
    [ok : {TRUE}, repos : RepoListings] \cup {[ok |-> FALSE, repos |-> <<>>]}

\* case "resolve-service-id" of the v1 handler, given GitHub's answer
RegistryResolveServiceId(serviceName, github) ==
    IF serviceName = Undefined THEN RegistryError("TypeError")
    ELSE IF ~github.ok THEN RegistryError("GitHub API error")
    ELSE LET searchTerm == ToLowerCase(serviceName)
             results == PushRepos(RegistryResults(searchTerm),
                                  RegistryFetchOrgRepos(github.repos), 1, searchTerm)
         IN  [isError |-> FALSE,
              query |-> serviceName,
              count |-> Len(results),
              services |-> results,
              hint |-> IF Len(results) > 0 THEN results[1].id ELSE <<>>]

\* "marketplace", "API", "sso", "programs", "zzz"
TextMarketplace == <<109, 97, 114, 107, 101, 116, 112, 108, 97, 99, 101>>
TextApiUpper == <<65, 80, 73>>
TextSso == <<115, 115, 111>>
TextPrograms == <<112, 114, 111, 103, 114, 97, 109, 115>>
TextZzz == <<122, 122, 122>>

ServiceNames ==
    {TextMarketplace, TextApiUpper, TextSso, TextPrograms, TextEmpty, TextZzz, Undefined}

\* a resolve-service-id request is served by the v1 server
ResolveCall ==
    /\ \E serviceName \in ServiceNames, github \in ListingAnswers :
          lastOp' = [op |-> "resolve-service-id", serviceName |-> serviceName,
                     listing |-> github.repos,
                     response |-> RegistryResolveServiceId(serviceName, github)]
    /\ UNCHANGED <<vs, openai, calls, serverVars>>

ResolveInit ==
    /\ openai = FALSE
    /\ calls = <<>>
    /\ vs = EmptyStore
    /\ lastOp = NoOp
    /\ ServerStart

ResolveNext == ResolveCall

ResolveSpec == ResolveInit /\ [][ResolveNext]_vars

\* the request was answered with a services list
Resolved == lastOp.op = "resolve-service-id" /\ ~lastOp.response.isError

\* C28: the services list of the v1 resolve-service-id never has two entries
\* with the same id; the matching registry entries come first, in registry
\* order; a matching repository whose name is an id already listed is not
\* added, every other matching repository of the listing is; and count is the
\* length of the list.
C28_NoDuplicateServiceIds ==
    Resolved =>
        LET services == lastOp.response.services
            searchTerm == ToLowerCase(lastOp.serviceName)
            registry == RegistryResults(searchTerm)
            repos == RegistryFetchOrgRepos(lastOp.listing)
            n == Len(registry)
        IN  /\ \A i, j \in 1..Len(services) : services[i].id = services[j].id => i = j
            /\ Len(services) >= n
            /\ SubSeq(services, 1, n) = registry
            /\ \A i \in (n + 1)..Len(services) : services[i].type = "repository"
            /\ \A k \in 1..Len(repos) :
                  RepoMatches(repos[k], searchTerm) =>
                      IF \E i \in 1..n : registry[i].id = repos[k].name
                      THEN ~ \E i \in 1..Len(services) :
                                 services[i].type = "repository"
                                 /\ services[i].name = repos[k].name
                      ELSE \E i \in (n + 1)..Len(services) : services[i].id = repos[k].id
            /\ lastOp.response.count = Len(services)

\* C28 witness: "sso" matched the registry entry marketplace-api, the
\* repository marketplace-api and the repository sso-gateway; the list holds
\* the registry entry and sso-gateway.
C28_Witness ==
    /\ Resolved
    /\ lastOp.serviceName = TextSso
    /\ Len(lastOp.listing) = 2
    /\ lastOp.listing[1].name = SERVICE_REGISTRY[1].id
    /\ RepoMatches(RegistryFetchOrgRepos(lastOp.listing)[1], TextSso)
    /\ lastOp.response.count = 2
    /\ lastOp.response.services[1].type = "api"
    /\ lastOp.response.services[2].type = "repository"

\* --------------------------------------------------------------- the repo-indexer server: searchApiDocs

\* an array that is absent (undefined), kept apart from the empty array
UndefinedList == <<Undefined>>

\* list || []
ListOrEmpty(list) == IF list = UndefinedList THEN <<>> ELSE list

\* \s of a regular expression, in ASCII: tab, line feed, vertical tab, form
\* feed, carriage return, space
IsSpaceChar(c) == c \in {9, 10, 11, 12, 13, 32}

\* split(/\s+/) without the empty strings it yields at the ends: the maximal
\* runs of characters that are not white space
SplitSpaces(text) ==
    LET n == Len(text)
        positions == [i \in 1..n |-> i] \o <<>>
        starts == SelectSeq(positions, LAMBDA i :
                      ~IsSpaceChar(text[i]) /\ (i = 1 \/ IsSpaceChar(text[i - 1])))
        ends == SelectSeq(positions, LAMBDA i :
                      ~IsSpaceChar(text[i]) /\ (i = n \/ IsSpaceChar(text[i + 1])))
    IN  [k \in 1..Len(starts) |-> SubSeq(text, starts[k], ends[k])] \o <<>>

\* queryLower.split(/\s+/).filter(t => t.length > 2)
QueryTerms(query) == SelectSeq(SplitSpaces(ToLowerCase(query)), LAMBDA term : Len(term) > 2)

\* "get", "post", "put", "delete", "patch"
OperationMethods == {TextGet, TextPost, TextPut, TextDelete, TextPatch}

\* Object.entries over spec.paths and over each path's methods, skipping the
\* keys that are no HTTP method: the (path, method, operation) triples in
\* iteration order
RECURSIVE Operations(_)
Operations(paths) ==
    IF paths = <<>> THEN <<>>
    ELSE LET first == paths[1]
             kept == SelectSeq(first.methods, LAMBDA e : e.method \in OperationMethods)
         IN  [k \in 1..Len(kept) |->
                 [path |-> first.path, method |-> kept[k].method,
                  operation |-> kept[k].operation]] \o Operations(Tail(paths))

\* the search text of an operation
EndpointSearchText(path, operation) ==
    ToLowerCase(Join(<<path,
                       OrDefault(operation.summary, <<>>),
                       OrDefault(operation.description, <<>>),
                       OrDefault(operation.operationId, <<>>)>>
                     \o ListOrEmpty(operation.tags), Space))

\* the search text of a schema
SchemaSearchText(name, schema) ==
    ToLowerCase(Join(<<name, OrDefault(schema.description, <<>>)>>
                     \o ListOrEmpty(schema.properties), Space))

\* queryTerms.filter(term => searchText.includes(term))
TermMatches(queryTerms, searchText) ==
    SelectSeq(queryTerms, LAMBDA term : Includes(searchText, term))

\* matches.length / queryTerms.length, as the fraction num / den
Relevance(matches, queryTerms) == [num |-> Len(matches), den |-> Len(queryTerms)]

\* the sign of b.relevance - a.relevance
RelevanceComparator(a, b) ==
    LET diff == b.relevance.num * a.relevance.den - a.relevance.num * b.relevance.den
    IN  IF diff > 0 THEN 1 ELSE IF diff < 0 THEN -1 ELSE 0

SortByRelevanceSkipped(items) == items

\* items.sort((a, b) => b.relevance - a.relevance): the comparator is
\* consistent, so the result is the stable order
SortByRelevance(items) ==
    LET n == Len(items)
        rank == [i \in 1..n |->
                    1 + Cardinality({j \in 1..n :
                            \/ RelevanceComparator(items[j], items[i]) < 0
                            \/ RelevanceComparator(items[j], items[i]) = 0 /\ j < i})] \o <<>>
    IN  [k \in 1..n |-> items[CHOOSE i \in 1..n : rank[i] = k]] \o <<>>

\* spec.components?.schemas || spec.definitions || {}
SpecSchemas(spec) ==
    IF spec.schemas.present THEN spec.schemas.entries
    ELSE IF spec.definitions.present THEN spec.definitions.entries
    ELSE <<>>

\* the endpoints that matched, in iteration order
MatchedEndpoints(spec, queryTerms) ==
    LET ops == Operations(spec.paths)
        hits == SelectSeq(ops, LAMBDA e :
                    Len(TermMatches(queryTerms,
                                    EndpointSearchText(e.path, e.operation))) > 0)
    IN  [k \in 1..Len(hits) |->
            [method |-> ToUpperCase(hits[k].method),
             path |-> hits[k].path,
             summary |-> hits[k].operation.summary,
             description |-> hits[k].operation.description,
             tags |-> hits[k].operation.tags,
             operationId |-> hits[k].operation.operationId,
             relevance |-> Relevance(TermMatches(queryTerms,
                               EndpointSearchText(hits[k].path, hits[k].operation)),
                               queryTerms)]] \o <<>>

\* the schemas that matched, in iteration order
MatchedSchemas(spec, queryTerms) ==
    LET all == SpecSchemas(spec)
        hits == SelectSeq(all, LAMBDA s :
                    Len(TermMatches(queryTerms, SchemaSearchText(s.name, s))) > 0)
    IN  [k \in 1..Len(hits) |->
            [name |-> hits[k].name,
             description |-> hits[k].description,
             properties |-> ListOrEmpty(hits[k].properties),
             relevance |-> Relevance(TermMatches(queryTerms,
                               SchemaSearchText(hits[k].name, hits[k])),
                               queryTerms)]] \o <<>>

\* searchApiDocs(spec, query)
SearchApiDocs(spec, query) ==
    LET queryTerms == QueryTerms(query)
    IN  [endpoints |-> SortByRelevance(MatchedEndpoints(spec, queryTerms)),
         schemas |-> SortByRelevance(MatchedSchemas(spec, queryTerms)),
         descriptions |-> <<>>]

\* the paths of the API specification: "/participants" with get and a
\* path-level parameters key, "/transactions" with post, "/sso" with get
ApiPaths ==
    { [path |-> <<47, 112, 97, 114, 116, 105, 99, 105, 112, 97, 110, 116, 115>>,
       methods |->
         << [method |-> <<103, 101, 116>>,
             operation |-> [summary |-> <<76, 105, 115, 116, 32, 112, 97, 114, 116, 105, 99, 105, 112, 97, 110, 116, 115>>,
                            description |-> Undefined,
                            operationId |-> <<108, 105, 115, 116, 80, 97, 114, 116, 105, 99, 105, 112, 97, 110, 116, 115>>,
                            tags |-> <<<<80, 97, 114, 116, 105, 99, 105, 112, 97, 110, 116>>>>]],
            [method |-> <<112, 97, 114, 97, 109, 101, 116, 101, 114, 115>>,
             operation |-> [summary |-> Undefined,
                            description |-> <<112, 97, 114, 116, 105, 99, 105, 112, 97, 110, 116, 32, 105, 100>>,
                            operationId |-> Undefined,
                            tags |-> UndefinedList]] >>],
      [path |-> <<47, 116, 114, 97, 110, 115, 97, 99, 116, 105, 111, 110, 115>>,
       methods |->
         << [method |-> <<112, 111, 115, 116>>,
             operation |-> [summary |-> <<67, 114, 101, 97, 116, 101, 32, 116, 114, 97, 110, 115, 97, 99, 116, 105, 111, 110>>,
                            description |-> <<65, 100, 106, 117, 115, 116, 32, 112, 97, 114, 116, 105, 99, 105, 112, 97, 110, 116, 32, 112, 111, 105, 110, 116, 115>>,
                            operationId |-> Undefined,
                            tags |-> UndefinedList]] >>],
      [path |-> <<47, 115, 115, 111>>,
       methods |->
         << [method |-> <<103, 101, 116>>,
             operation |-> [summary |-> Undefined,
                            description |-> Undefined,
                            operationId |-> <<115, 115, 111, 76, 111, 103, 105, 110>>,
                            tags |-> <<<<83, 83, 79>>>>]] >>] }

\* the schemas "Participant" and "Webhook"
SchemaParticipant ==
    [name |-> <<80, 97, 114, 116, 105, 99, 105, 112, 97, 110, 116>>,
     description |-> <<65, 32, 112, 114, 111, 103, 114, 97, 109, 32, 112, 97, 114, 116, 105, 99, 105, 112, 97, 110, 116>>,
     properties |-> <<<<105, 100>>, <<112, 111, 105, 110, 116, 115>>>>]
SchemaWebhook ==
    [name |-> <<87, 101, 98, 104, 111, 111, 107>>, description |-> Undefined, properties |-> UndefinedList]

\* an object of schemas that is absent
NoSchemas == [present |-> FALSE, entries |-> <<>>]

\* the API specifications searchApiDocs is applied to
ApiSpecs ==
    {[paths |-> ps, schemas |-> sc, definitions |-> df] :
        ps \in {s \in UNION {[1..n -> ApiPaths] : n \in 0..MaxPaths} :
                    \A i, j \in 1..Len(s) : s[i] = s[j] => i = j},
        sc \in {NoSchemas, [present |-> TRUE, entries |-> <<SchemaParticipant>>]},
        df \in {NoSchemas, [present |-> TRUE, entries |-> <<SchemaWebhook, SchemaParticipant>>]}}

\* "participant points", "How do PARTICIPANT transactions work", "id",
\* "sso  login<tab>zzz", "points points webhook"
TextParticipantPoints == <<112, 97, 114, 116, 105, 99, 105, 112, 97, 110, 116, 32, 112, 111, 105, 110, 116, 115>>
TextHowDoParticipant ==
    <<72, 111, 119, 32, 100, 111, 32, 80, 65, 82, 84, 73, 67, 73, 80, 65, 78, 84, 32, 116, 114, 97, 110, 115, 97, 99, 116, 105, 111, 110, 115, 32, 119, 111, 114, 107>>
TextId == <<105, 100>>
TextSsoLoginZzz == <<115, 115, 111, 32, 32, 108, 111, 103, 105, 110, 9, 122, 122, 122>>
TextPointsPointsWebhook ==
    <<112, 111, 105, 110, 116, 115, 32, 112, 111, 105, 110, 116, 115, 32, 119, 101, 98, 104, 111, 111, 107>>

ApiQueries ==
    {TextParticipantPoints, TextHowDoParticipant, TextId, TextSsoLoginZzz,
     TextPointsPointsWebhook, TextEmpty, TextZzz}

\* searchApiDocs is applied to a specification and a query
SearchApiDocsCall ==
    /\ \E spec \in ApiSpecs, query \in ApiQueries :
          lastOp' = [op |-> "searchApiDocs", spec |-> spec, query |-> query,
                     result |-> SearchApiDocs(spec, query)]
    /\ UNCHANGED <<vs, openai, calls, serverVars>>

SearchApiDocsInit ==
    /\ openai = FALSE
    /\ calls = <<>>
    /\ vs = EmptyStore
    /\ lastOp = NoOp
    /\ ServerStart

SearchApiDocsNext == SearchApiDocsCall

SearchApiDocsSpec == SearchApiDocsInit /\ [][SearchApiDocsNext]_vars

\* a.relevance >= b.relevance
RelevanceGeq(a, b) == a.relevance.num * b.relevance.den >= b.relevance.num * a.relevance.den

\* items are in non-increasing relevance order, each relevance in (0, 1]
RankedByRelevance(items) ==
    /\ \A i \in 1..(Len(items) - 1) : RelevanceGeq(items[i], items[i + 1])
    /\ \A i \in 1..Len(items) :
          /\ items[i].relevance.den > 0
          /\ items[i].relevance.num > 0
          /\ items[i].relevance.num <= items[i].relevance.den

\* a term of the query longer than 2 characters occurs in searchText
SomeLongTermOccurs(query, searchText) ==
    \E k \in 1..Len(SplitSpaces(ToLowerCase(query))) :
        LET term == SplitSpaces(ToLowerCase(query))[k]
        IN  Len(term) > 2 /\ Includes(searchText, term)

\* C30: searchApiDocs returns endpoints and schemas each in non-increasing
\* relevance order with every relevance in (0, 1]; a returned item has a query
\* term longer than 2 characters in its search text; and a query without such
\* a term yields empty endpoints and schemas.
C30_RankedRelevantResults ==
    lastOp.op = "searchApiDocs" =>
        LET result == lastOp.result
            ops == Operations(lastOp.spec.paths)
            all == SpecSchemas(lastOp.spec)
        IN  /\ RankedByRelevance(result.endpoints)
            /\ RankedByRelevance(result.schemas)
            /\ \A i \in 1..Len(result.endpoints) :
                  \E k \in 1..Len(ops) :
                      /\ ops[k].path = result.endpoints[i].path
                      /\ ToUpperCase(ops[k].method) = result.endpoints[i].method
                      /\ SomeLongTermOccurs(lastOp.query,
                             EndpointSearchText(ops[k].path, ops[k].operation))
            /\ \A i \in 1..Len(result.schemas) :
                  \E k \in 1..Len(all) :
                      /\ all[k].name = result.schemas[i].name
                      /\ SomeLongTermOccurs(lastOp.query,
                             SchemaSearchText(all[k].name, all[k]))
            /\ (\A k \in 1..Len(SplitSpaces(lastOp.query)) :
                    Len(SplitSpaces(lastOp.query)[k]) <= 2) =>
                  (result.endpoints = <<>> /\ result.schemas = <<>>)

\* C30 witness: "participant points" found /transactions with both terms and
\* /participants, which comes first in the specification, with one; the sort
\* moved /transactions to the front.
C30_Witness ==
    /\ lastOp.op = "searchApiDocs"
    /\ lastOp.query = TextParticipantPoints
    /\ Len(lastOp.result.endpoints) = 2
    /\ lastOp.result.endpoints[1].relevance = [num |-> 2, den |-> 2]
    /\ lastOp.result.endpoints[2].relevance = [num |-> 1, den |-> 2]
    /\ lastOp.spec.paths[1].path = lastOp.result.endpoints[2].path
    /\ Len(lastOp.result.schemas) = 1

\* C30 witness: a query whose terms all have at most 2 characters was applied
\* to a specification with paths and schemas.
C30_WitnessShortTerms ==
    /\ lastOp.op = "searchApiDocs"
    /\ lastOp.query = TextId
    /\ Len(lastOp.spec.paths) = MaxPaths
    /\ SpecSchemas(lastOp.spec) # <<>>
    /\ lastOp.result.endpoints = <<>>

\* --------------------------------------------------------------- the repo-indexer server: ask

\* stopWords
StopWords ==
    {<<104, 111, 119>>, <<100, 111, 101, 115>>, <<119, 104, 97, 116>>,
     <<119, 104, 101, 114, 101>>, <<119, 104, 101, 110>>, <<119, 104, 121>>,
     <<105, 115>>, <<97, 114, 101>>, <<116, 104, 101>>, <<97>>, <<97, 110>>,
     <<105, 110>>, <<111, 110>>, <<97, 116>>, <<116, 111>>,
     <<102, 111, 114>>, <<111, 102>>, <<119, 105, 116, 104>>, <<98, 121>>}

\* question.toLowerCase().replace(/[?.,!]/g, '').split(/\s+/)
\*     .filter(t => t.length > 2 && !stopWords.has(t))
AskTerms(question) ==
    LET cleaned == SelectSeq(ToLowerCase(question), LAMBDA c : c \notin {63, 46, 44, 33})
    IN  SelectSeq(SplitSpaces(cleaned), LAMBDA term : Len(term) > 2 /\ term \notin StopWords)

\* terms.slice(0, 5).join(' ')
AskSearchQuery(terms) == Join(Slice0(terms, 5), Space)

\* a property of response that was never assigned
Absent == "absent"

\* the response object as the ask case creates it
NewAskResponse(question, terms) ==
    [question |-> question,
     search_terms |-> terms,
     code_results |-> <<>>,
     code_error |-> Absent,
     api_results |-> [endpoints |-> <<>>, schemas |-> <<>>],
     api_error |-> Absent,
     summary |-> <<>>]

\* nothing was returned yet
NotReturned == [sent |-> FALSE, isError |-> FALSE]

\* the handler's frame before a request
NoFrame == [op |-> "ask", pc |-> "idle"]

\* the catch block of the handler: the isError response
AskThrows(frame, message) ==
    [frame EXCEPT !.pc = "done",
                  !.returned = [sent |-> TRUE, isError |-> TRUE, text |-> message]]

\* "Generate summary" and the return statement: the counts that the summary
\* text is written from, and the response serialized
AskReturn(frame) ==
    LET summary == <<Len(frame.response.code_results),
                     Len(frame.response.api_results.endpoints),
                     Len(frame.response.api_results.schemas)>>
        summarized == [frame.response EXCEPT !.summary = summary]
    IN  [frame EXCEPT !.pc = "done",
                      !.response = summarized,
                      !.returned = [sent |-> TRUE, isError |-> FALSE, body |-> summarized]]

\* after the code search block: the API docs block if search_api_docs is not
\* false, else the summary
AskAfterCode(frame) ==
    IF frame.searchApiDocsFlag THEN [frame EXCEPT !.pc = "api"] ELSE AskReturn(frame)

CodeSearchThrewUncaught(frame, message) ==
    AskThrows([frame EXCEPT !.codeOutcome = "threw"], message)

\* catch (e) { response.code_error = e.message } of the code search block
CodeSearchThrew(frame, message) ==
    AskAfterCode([frame EXCEPT !.response.code_error = message,
                               !.codeOutcome = "threw"])

\* what the code search may answer: the request fails, the body has no items
\* array, or up to MaxItems items, for each of which fetching the file fails
\* (snippets -1) or yields so many snippets
CodeItems == {[path |-> k, snippets |-> n] : k \in 1..MaxItems, n \in {-1, 0, 4}}

CodeAnswers ==
    {[kind |-> "fails", items |-> <<>>], [kind |-> "noItems", items |-> <<>>]}
    \cup {[kind |-> "items", items |-> s] :
            s \in {q \in UNION {[1..n -> CodeItems] : n \in 0..MaxItems} :
                      \A i \in 1..Len(q) : q[i].path = i}}

\* codeResults.items.slice(0, 5).map(...): one entry per item, with
\* snippets.slice(0, 3), or no snippets when fetching the file failed
CodeResults(items) ==
    LET top == Slice0(items, 5)
    IN  [i \in 1..Len(top) |->
            [path |-> top[i].path,
             snippets |-> IF top[i].snippets < 0 THEN 0 ELSE Min(top[i].snippets, 3)]]
        \o <<>>

\* what fetching the API docs may answer: the request fails, the body is
\* null, or a specification
ApiDocsAnswers ==
    {[kind |-> "fails"], [kind |-> "null"]}
    \cup {[kind |-> "spec", spec |-> s] :
            s \in {a \in ApiSpecs : Len(a.paths) = MaxPaths /\ a.definitions.present}}

\* "How does SSO work?", "what is the"
TextHowDoesSsoWork == <<72, 111, 119, 32, 100, 111, 101, 115, 32, 83, 83, 79, 32, 119, 111, 114, 107, 63>>
TextWhatIsThe == <<119, 104, 97, 116, 32, 105, 115, 32, 116, 104, 101>>

AskQuestions == {TextHowDoesSsoWork, TextWhatIsThe, TextParticipantPoints, Undefined}

\* the handler receives an ask request: the synchronous part up to the first
\* await.  max_results 0 is a request without max_results.
AskIndexerStart ==
    /\ lastOp.op # "ask" \/ lastOp.pc \in {"idle", "done"}
    /\ \E question \in AskQuestions, search_code \in BOOLEAN,
          search_api_docs \in BOOLEAN, max_results \in {0, 1} :
          LET frame == [op |-> "ask", pc |-> "start",
                        searchCodeFlag |-> search_code,
                        searchApiDocsFlag |-> search_api_docs,
                        maxResults |-> IF max_results = 0 THEN 10 ELSE max_results,
                        searchQuery |-> <<>>,
                        response |-> NewAskResponse(question, <<>>),
                        codeOutcome |-> "none",
                        apiOutcome |-> "none",
                        codeKept |-> <<>>,
                        returned |-> NotReturned]
          IN  IF question = Undefined
              THEN lastOp' = AskThrows(frame, "TypeError")
              ELSE LET terms == AskTerms(question)
                       searchQuery == AskSearchQuery(terms)
                       ready == [frame EXCEPT !.searchQuery = searchQuery,
                                              !.response = NewAskResponse(question, terms)]
                   IN  lastOp' = IF search_code /\ searchQuery # <<>>
                                 THEN [ready EXCEPT !.pc = "code"]
                                 ELSE AskAfterCode(ready)
    /\ UNCHANGED <<vs, openai, calls, serverVars>>

\* the code search and the snippet fetches settle
AskIndexerCode ==
    /\ lastOp.op = "ask" /\ lastOp.pc = "code"
    /\ \E answer \in CodeAnswers :
          lastOp' =
              IF answer.kind = "fails" THEN CodeSearchThrew(lastOp, "GitHub API error")
              ELSE IF answer.kind = "noItems" THEN CodeSearchThrew(lastOp, "TypeError")
              ELSE AskAfterCode([lastOp EXCEPT
                       !.response.code_results = CodeResults(answer.items),
                       !.codeOutcome = "returned"])
    /\ UNCHANGED <<vs, openai, calls, serverVars>>

\* the API docs fetch settles; searchApiDocs and the summary follow
AskIndexerApi ==
    /\ lastOp.op = "ask" /\ lastOp.pc = "api"
    /\ \E answer \in ApiDocsAnswers :
          LET kept == [lastOp EXCEPT !.codeKept = lastOp.response.code_results]
          IN  lastOp' =
                  IF answer.kind = "fails"
                  THEN AskReturn([kept EXCEPT !.response.api_error = "Failed to fetch API docs",
                                              !.apiOutcome = "threw"])
                  ELSE IF answer.kind = "null"
                  THEN AskReturn([kept EXCEPT !.response.api_error = "TypeError",
                                              !.apiOutcome = "threw"])
                  ELSE LET apiResults == SearchApiDocs(answer.spec, lastOp.response.question)
                       IN  AskReturn([kept EXCEPT
                               !.response.api_results =
                                   [endpoints |-> Slice0(apiResults.endpoints,
                                                         lastOp.maxResults),
                                    schemas |-> Slice0(apiResults.schemas, 5)],
                               !.apiOutcome = "returned"])
    /\ UNCHANGED <<vs, openai, calls, serverVars>>

AskIndexerInit ==
    /\ openai = FALSE
    /\ calls = <<>>
    /\ vs = EmptyStore
    /\ lastOp = NoFrame
    /\ ServerStart

AskIndexerNext == AskIndexerStart \/ AskIndexerCode \/ AskIndexerApi

AskIndexerSpec == AskIndexerInit /\ [][AskIndexerNext]_vars

\* the handler has left the code search block
PastCode == lastOp.op = "ask" /\ lastOp.pc \in {"api", "done"}

\* C29: in the repo-indexer ask tool, a code search that throws records
\* code_error and the API docs are still searched (when search_api_docs is
\* not false); an API docs fetch that throws records api_error and keeps the
\* code results; in every such case the response returned is a normal one
\* containing summary.
C29_SearchesFailIndependently ==
    PastCode =>
        /\ lastOp.codeOutcome = "threw" =>
              /\ lastOp.response.code_error # Absent
              /\ lastOp.response.code_results = <<>>
              /\ lastOp.searchApiDocsFlag =>
                    (lastOp.pc = "api" \/ lastOp.apiOutcome # "none")
        /\ lastOp.apiOutcome = "threw" =>
              /\ lastOp.response.api_error # Absent
              /\ lastOp.response.code_results = lastOp.codeKept
              /\ lastOp.codeOutcome = "returned" =>
                    lastOp.response.code_error = Absent
        /\ (lastOp.pc = "done"
            /\ (lastOp.codeOutcome = "threw" \/ lastOp.apiOutcome = "threw")) =>
              /\ lastOp.returned.sent
              /\ ~lastOp.returned.isError
              /\ lastOp.returned.body.summary # <<>>
              /\ lastOp.returned.body.code_error = lastOp.response.code_error
              /\ lastOp.returned.body.api_error = lastOp.response.api_error

\* C29 witness: the code search threw, the API docs were searched and found
\* something, and the response was returned.
C29_Witness ==
    /\ lastOp.op = "ask" /\ lastOp.pc = "done"
    /\ lastOp.codeOutcome = "threw"
    /\ lastOp.apiOutcome = "returned"
    /\ lastOp.response.api_results.endpoints # <<>>
    /\ ~lastOp.returned.isError

\* C29 witness: the code search returned two files and the API docs fetch
\* threw afterwards.
C29_WitnessApiThrew ==
    /\ lastOp.op = "ask" /\ lastOp.pc = "done"
    /\ lastOp.codeOutcome = "returned"
    /\ lastOp.apiOutcome = "threw"
    /\ Len(lastOp.returned.body.code_results) = 2
    /\ lastOp.returned.body.summary = <<2, 0, 0>>

\* C29 witness: both searches threw.
C29_WitnessBothThrew ==
    /\ lastOp.op = "ask" /\ lastOp.pc = "done"
    /\ lastOp.codeOutcome = "threw"
    /\ lastOp.apiOutcome = "threw"
    /\ lastOp.returned.body.summary = <<0, 0, 0>>

====
